---- MODULE Spec2Model ----
(***************************************************************************)
(* Broker simulation engine (backend/server/core/BrokerService.js) with    *)
(* its replay market-data provider and the HTTP facade's order route.      *)
(*                                                                         *)
(* Representation.  Money and prices are integers counting 10^-6 currency  *)
(* units, the grid roundMoney (toFixed(6)) rounds to; quantities are whole *)
(* shares.  An optional number is a tuple: <<>> is null, <<x>> is the      *)
(* number x and <<0, 0>> is NaN.  Slippage is counted in 1/1000 bps and    *)
(* the volatility proxy in 1/1000.  Wall-clock time is an index into a     *)
(* list of instants, InstantsPerDay per calendar day.                      *)
(***************************************************************************)
EXTENDS Integers, Sequences, FiniteSets, TLC

VARIABLES
    config,     \* BrokerService.config, immutable per instance
    accounts,   \* BrokerService.accounts: Map accountId -> account
    index,      \* ReplayMarketDataService.symbols[s].index
    rng,        \* state of the seeded RNG
    now,        \* the wall clock (an instant)
    calls,      \* in-flight async calls: per caller, a stack of frames
    budget,     \* operations still allowed by the bounds of the model
    twin,       \* a second BrokerService instance (determinism)
    fn,         \* argument/result of a pure function under test
    snapshot    \* the instance as it was when overlapping calls began

vars == <<config, accounts, index, rng, now, calls, budget, twin, fn, snapshot>>

-----------------------------------------------------------------------------
(* Numbers *)

MoneyScale == 1000000
SlipScale == 1000
VolScale == 1000

Null == <<>>
NaN == <<0, 0>>
Num(x) == <<x>>
IsNum(v) == Len(v) = 1
\* JavaScript `v > 0` for a number, null or NaN
GtZero(v) == IsNum(v) /\ v[1] > 0

Abs(x) == IF x < 0 THEN -x ELSE x
Sign(x) == IF x > 0 THEN 1 ELSE IF x < 0 THEN -1 ELSE 0
Max(a, b) == IF a >= b THEN a ELSE b

\* nearest integer to n/d (d > 0), a tie going to the larger integer
RoundHalfUp(n, d) == (2 * n + d) \div (2 * d)

\* Number(value.toFixed(6)) of the exact value n/d (in 10^-6 units):
\* toFixed rounds the magnitude, ties away from zero
roundMoney(n, d) == IF n >= 0 THEN RoundHalfUp(n, d) ELSE -RoundHalfUp(-n, d)

\* quantities of updateSignedPosition: units per share
QtyScale == 10000000

\* toFixed(6) of a quantity in 1/QtyScale units (no input is a tie)
roundQuantity(n) ==
    LET step == QtyScale \div MoneyScale
    IN  Sign(n) * RoundHalfUp(Abs(n), step) * step

RECURSIVE GCD(_, _)
GCD(a, b) == IF b = 0 THEN a ELSE GCD(b, a % b)

\* a * b = q * d + r with 0 <= r < d, for a, b >= 0 and d a multiple of
\* 1000, computed without leaving 32 bits
MulDivParts(a, b, d) ==
    LET a1 == a \div 1000
        a0 == a % 1000
        d1 == d \div 1000
        t  == a1 * b
        rr == (t % d1) * 1000 + a0 * b
    IN  [q |-> (t \div d1) + (rr \div d), r |-> rr % d]

RECURSIVE ISqrtIn(_, _, _)
ISqrtIn(x, lo, hi) ==
    IF lo >= hi THEN lo
    ELSE LET m == (lo + hi + 1) \div 2
         IN  IF m * m <= x THEN ISqrtIn(x, m, hi) ELSE ISqrtIn(x, lo, m - 1)
\* floor of the square root
ISqrt(x) == ISqrtIn(x, 0, 46340)

\* Math.log10(n) in 1/1000, for the quantities the model trades
Log10Milli(n) ==
    LET t == <<0, 301, 477, 602, 699, 778, 845, 903, 954, 1000,
               1041, 1079, 1114, 1146, 1176, 1204, 1230, 1255, 1279, 1301>>
    IN  IF n <= Len(t) THEN t[n] ELSE 1301

\* F(v), with v evaluated once however often F uses it
Once(v, F(_)) == CHOOSE y \in { F(x) : x \in {v} } : TRUE

RECURSIVE SumTo(_, _)
SumTo(s, n) == IF n = 0 THEN 0 ELSE s[n] + SumTo(s, n - 1)
\* the sum of a sequence of numbers
SumSeq(s) == Once(s, LAMBDA t : SumTo(t, Len(t)))

SelectIdx(s, P(_)) == { i \in 1..Len(s) : P(s[i]) }

-----------------------------------------------------------------------------
(* Configuration (config.js) and replay dataset (data/replay-quotes.json) *)

defaultBrokerConfig ==
    [ seed |-> 42,
      executionDelayMs |-> 0,
      enforceMarketHours |-> TRUE,
      marketOpenHour |-> 9, marketOpenMinute |-> 30,
      marketCloseHour |-> 16, marketCloseMinute |-> 0,
      commissionPerTrade |-> 1000,          \* 0.001 currency units
      feeRateBps |-> 10,
      baseSlippageBps |-> 2,
      sizeImpactBps |-> 1,
      randomSlippageBps |-> 4,
      baseSpreadBps |-> 8,
      initialMarginLong |-> <<1, 2>>,       \* 0.5
      initialMarginShort |-> <<3, 2>>,      \* 1.5
      maintenanceMarginLong |-> <<1, 4>>,   \* 0.25
      maintenanceMarginShort |-> <<3, 10>>, \* 0.3
      settlementDaysEquities |-> 1,
      shortBorrowDailyRate |-> <<1, 100>>,  \* 0.01 per day
      forceLiquidationEnabled |-> FALSE ]

\* mid prices in whole currency units
replayQuotes ==
    [ AAPL |-> [series |-> <<2, 2, 3, 2>>, spreadBps |-> Null],
      TSLA |-> [series |-> <<2, 2, 2, 5>>, spreadBps |-> Num(20)] ]

\* ReplayMarketDataService constructor: symbol -> {spreadBps, series}
symbols ==
    [ s \in DOMAIN replayQuotes |->
        [ spreadBps |-> IF replayQuotes[s].spreadBps = Null
                        THEN defaultBrokerConfig.baseSpreadBps
                        ELSE replayQuotes[s].spreadBps[1],
          series |-> replayQuotes[s].series ] ]

Symbols == DOMAIN symbols

-----------------------------------------------------------------------------
(* Seeded RNG (utils/rng.js): a deterministic stream of values in [0, 1),  *)
(* here state / RngMod of a full-period linear congruential generator.     *)

RngMod == 16
createSeededRng(seed) == seed % RngMod
\* the state after one draw; the value drawn is that state / RngMod
rngNext(r) == (5 * r + 3) % RngMod
\* Math.floor(rng() * 10000) for the state after the draw
rand4(r) == (r * 10000) \div RngMod

-----------------------------------------------------------------------------
(* Wall clock *)

InstantsPerDay == 2
\* minutes after local midnight of the instants of a day: 10:00 and 17:00
InstantMinutes == <<600, 1020>>
\* Date.getDay() of day 0 (1 = Monday)
StartDow == 1

dayOf(t) == t \div InstantsPerDay
getDay(t) == (StartDow + dayOf(t)) % 7
minutesOf(t) == InstantMinutes[(t % InstantsPerDay) + 1]
toIsoDate(t) == dayOf(t)

RECURSIVE nextBusinessDay(_, _)
nextBusinessDay(date, addDays) ==
    IF addDays <= 0 THEN date
    ELSE LET next == date + InstantsPerDay
             day == getDay(next)
         IN  IF day # 0 /\ day # 6
             THEN nextBusinessDay(next, addDays - 1)
             ELSE nextBusinessDay(next, addDays)

isMarketOpen(cfg, t) ==
    IF ~cfg.enforceMarketHours THEN TRUE
    ELSE IF getDay(t) = 0 \/ getDay(t) = 6 THEN FALSE
    ELSE LET openMinutes == cfg.marketOpenHour * 60 + cfg.marketOpenMinute
             closeMinutes == cfg.marketCloseHour * 60 + cfg.marketCloseMinute
             currentMinutes == minutesOf(t)
         IN  currentMinutes >= openMinutes /\ currentMinutes <= closeMinutes

-----------------------------------------------------------------------------
(* ReplayMarketDataService *)

\* max(stddev(window) / mean(window), 0.001) over series[max(0, i-4) .. i],
\* in 1/1000; i is the 0-based cursor
computeVolatilityProxy(series, i) ==
    LET start == Max(0, i - 4)
        window == [k \in 1..(i - start + 1) |-> series[start + k]]
        n == Len(window)
        sum == SumSeq(window)
        sumSq == SumSeq([k \in 1..n |-> window[k] * window[k]])
    IN  IF n < 2 THEN 1
        ELSE Max(ISqrt(VolScale * VolScale * (n * sumSq - sum * sum)) \div sum, 1)

\* computeVolatilityProxy(series, index) at every cursor of every symbol
volatilityProxies ==
    [ s \in Symbols |->
        [ k \in 1..Len(symbols[s].series) |->
            computeVolatilityProxy(symbols[s].series, k - 1) ] ]

\* #quote without the cursor update; "throw" for a symbol not configured
quoteAt(idx, symbol) ==
    IF symbol \notin Symbols THEN [threw |-> TRUE]
    ELSE LET entry == symbols[symbol]
             mid == entry.series[idx[symbol] + 1] * MoneyScale
         IN  [ threw |-> FALSE,
               symbol |-> symbol,
               bid |-> mid + RoundHalfUp(-(mid * entry.spreadBps), 20000),
               ask |-> mid + RoundHalfUp(mid * entry.spreadBps, 20000),
               mid |-> mid,
               spreadBps |-> entry.spreadBps,
               volatilityProxy |-> volatilityProxies[symbol][idx[symbol] + 1] ]

peekQuote(idx, symbol) == quoteAt(idx, symbol)

\* mutation: the cursor stops at the last sample
advanceSticking(idx, symbol) ==
    IF symbol \notin Symbols THEN idx
    ELSE [idx EXCEPT ![symbol] =
            IF idx[symbol] + 1 < Len(symbols[symbol].series) THEN idx[symbol] + 1
            ELSE idx[symbol]]

\* the cursor after getQuote(symbol)
advance(idx, symbol) ==
    IF symbol \notin Symbols THEN idx
    ELSE [idx EXCEPT ![symbol] = (idx[symbol] + 1) % Len(symbols[symbol].series)]

-----------------------------------------------------------------------------
(* BrokerService.js: module-level functions *)

VALID_TYPES == {"MARKET", "LIMIT", "STOP", "STOP_LIMIT"}
VALID_SIDES == {"BUY", "SELL", "SELL_SHORT", "BUY_TO_COVER"}
VALID_TIFS == {"DAY", "GTC", "IOC"}

\* String.prototype.toUpperCase on the strings the model submits
toUpperCase(s) ==
    CASE s = "market" -> "MARKET"
      [] s = "limit" -> "LIMIT"
      [] s = "buy" -> "BUY"
      [] s = "sell" -> "SELL"
      [] s = "day" -> "DAY"
      [] s = "gtc" -> "GTC"
      [] s = "aapl" -> "AAPL"
      [] s = "tsla" -> "TSLA"
      [] OTHER -> s

\* Number(v): null becomes 0, a non-numeric or absent value NaN
toNumber(v) == IF v = Null THEN Num(0) ELSE v

\* a raw input holds "" for an absent string and Null for an absent price
normalizeOrderInput(input) ==
    [ type |-> toUpperCase(input.type),
      side |-> toUpperCase(input.side),
      tif |-> toUpperCase(IF input.tif = "" THEN "DAY" ELSE input.tif),
      quantity |-> toNumber(input.quantity),
      limitPrice |-> input.limitPrice,
      stopPrice |-> input.stopPrice,
      symbol |-> toUpperCase(input.symbol) ]

\* roundMoney(commissionPerTrade + notional * feeRateBps / 10000)
calcFees(cfg, notional) ==
    cfg.commissionPerTrade + roundMoney(notional * cfg.feeRateBps, 10000)

\* slippage in 1/1000 bps; r is the RNG state after the draw
calcSlippageBps(cfg, r, quantity, volatilityProxy) ==
    LET sizeTerm == Log10Milli(1 + quantity) * cfg.sizeImpactBps
        volTerm == volatilityProxy * 500
    IN  cfg.baseSlippageBps * SlipScale + sizeTerm + volTerm
          + (r * cfg.randomSlippageBps * SlipScale) \div RngMod

\* roundMoney(basePrice * (1 + direction * slippageBps / 10000))
applyPriceImpact(basePrice, isBuy, slippageBps) ==
    LET m == MulDivParts(basePrice, slippageBps, 10000 * SlipScale)
    IN  IF isBuy
        THEN basePrice + m.q + (IF 2 * m.r >= 10000 * SlipScale THEN 1 ELSE 0)
        ELSE basePrice - m.q - (IF 2 * m.r > 10000 * SlipScale THEN 1 ELSE 0)

sideIsBuy(side) == side = "BUY" \/ side = "BUY_TO_COVER"

\* updateSignedPosition keeping the old average when the sign flips
updateSignedPositionKeepAvg(existing, deltaQty, fillPrice) ==
    LET currentQty == IF existing = Null THEN 0 ELSE existing.quantity
        currentAvg == IF existing = Null THEN fillPrice ELSE existing.avgPrice
        nextQty == currentQty + deltaQty
        g == GCD(Abs(currentQty), Abs(deltaQty))
    IN  IF currentQty = 0 \/ Sign(currentQty) = Sign(deltaQty)
        THEN [ quantity |-> roundQuantity(nextQty),
               avgPrice |-> roundMoney((Abs(currentQty) \div g) * currentAvg
                                         + (Abs(deltaQty) \div g) * fillPrice,
                                       Abs(nextQty) \div g) ]
        ELSE IF nextQty = 0
        THEN [quantity |-> 0, avgPrice |-> 0]
        ELSE [quantity |-> roundQuantity(nextQty), avgPrice |-> currentAvg]

\* updateSignedPosition: quantities here are in units of 1/QtyScale of a
\* share, one decimal finer than toFixed(6) keeps; prices in money units.
\* The weighted average is computed on the quantities divided by their
\* greatest common divisor, which leaves the quotient as it is.
updateSignedPosition(existing, deltaQty, fillPrice) ==
    LET currentQty == IF existing = Null THEN 0 ELSE existing.quantity
        currentAvg == IF existing = Null THEN fillPrice ELSE existing.avgPrice
        nextQty == currentQty + deltaQty
        g == GCD(Abs(currentQty), Abs(deltaQty))
    IN  IF currentQty = 0 \/ Sign(currentQty) = Sign(deltaQty)
        THEN [ quantity |-> roundQuantity(nextQty),
               avgPrice |-> roundMoney((Abs(currentQty) \div g) * currentAvg
                                         + (Abs(deltaQty) \div g) * fillPrice,
                                       Abs(nextQty) \div g) ]
        ELSE IF nextQty = 0
        THEN [quantity |-> 0, avgPrice |-> 0]
        ELSE IF Sign(currentQty) = Sign(nextQty)
        THEN [quantity |-> roundQuantity(nextQty), avgPrice |-> currentAvg]
        ELSE [quantity |-> roundQuantity(nextQty), avgPrice |-> fillPrice]

\* mutation: the quantity is checked before the tif
validateOrderByTypeQuantityFirst(order) ==
    IF order.type \notin VALID_TYPES THEN "unsupported order type"
    ELSE IF order.side \notin VALID_SIDES THEN "unsupported side"
    ELSE IF ~GtZero(order.quantity) THEN "invalid quantity"
    ELSE IF order.tif \notin VALID_TIFS THEN "unsupported tif"
    ELSE IF order.type = "LIMIT" /\ ~GtZero(order.limitPrice)
    THEN "invalid limit price"
    ELSE IF order.type = "STOP" /\ ~GtZero(order.stopPrice)
    THEN "invalid stop price"
    ELSE IF order.type = "STOP_LIMIT"
            /\ (~GtZero(order.stopPrice) \/ ~GtZero(order.limitPrice))
    THEN "invalid stop/limit prices"
    ELSE IF order.type = "MARKET" /\ order.tif = "GTC"
    THEN "unsupported order type/tif combination"
    ELSE "null"

validateOrderByType(order) ==
    IF order.type \notin VALID_TYPES THEN "unsupported order type"
    ELSE IF order.side \notin VALID_SIDES THEN "unsupported side"
    ELSE IF order.tif \notin VALID_TIFS THEN "unsupported tif"
    ELSE IF ~GtZero(order.quantity) THEN "invalid quantity"
    ELSE IF order.type = "LIMIT" /\ ~GtZero(order.limitPrice)
    THEN "invalid limit price"
    ELSE IF order.type = "STOP" /\ ~GtZero(order.stopPrice)
    THEN "invalid stop price"
    ELSE IF order.type = "STOP_LIMIT"
            /\ (~GtZero(order.stopPrice) \/ ~GtZero(order.limitPrice))
    THEN "invalid stop/limit prices"
    ELSE IF order.type = "MARKET" /\ order.tif = "GTC"
    THEN "unsupported order type/tif combination"
    ELSE "null"

\* ratio * value for a ratio <<numerator, denominator>>, as an exact
\* fraction <<n, d>>
RatioSum(r1, v1, r2, v2) ==
    <<r1[1] * v1 * r2[2] + r2[1] * v2 * r1[2], r1[2] * r2[2]>>

\* the unrounded requirements, as fractions
calculateMarginRequirements(cfg, longValue, shortValue) ==
    [ initialRequired |->
        RatioSum(cfg.initialMarginLong, longValue,
                 cfg.initialMarginShort, shortValue),
      maintenanceRequired |->
        RatioSum(cfg.maintenanceMarginLong, longValue,
                 cfg.maintenanceMarginShort, shortValue) ]

calculatePositionPnl(position, quoteMid) ==
    IF position.quantity = 0 THEN [marketValue |-> 0, unrealizedPnl |-> 0]
    ELSE [ marketValue |-> quoteMid * position.quantity,
           unrealizedPnl |->
             IF position.quantity > 0
             THEN (quoteMid - position.avgPrice) * position.quantity
             ELSE (position.avgPrice - quoteMid) * Abs(position.quantity) ]

-----------------------------------------------------------------------------
(* BrokerService: the ledger of one account *)

\* positions is the object's entries in key order: <<[key, symbol, quantity, avgPrice]>>
HasPosition(account, symbol) ==
    \E i \in 1..Len(account.positions) : account.positions[i].key = symbol

PositionOf(account, symbol) ==
    account.positions[CHOOSE i \in 1..Len(account.positions) :
                          account.positions[i].key = symbol]

\* mutation: reserved cash counts as available
availableCashUnreserved(account) ==
    account.settledCash - account.feesDue

availableCash(account) ==
    account.settledCash - account.reservedCash - account.feesDue

\* mutation: unsettled cash is left out of equity
computeMetricsSettledOnly(cfg, idx, account) ==
    LET value(p) == p.quantity * peekQuote(idx, p.symbol).mid
        sums(ps) ==
            [ marketValue |-> SumSeq([i \in 1..Len(ps) |-> value(ps[i])]),
              longValue |->
                SumSeq([i \in 1..Len(ps) |->
                          IF ps[i].quantity > 0 THEN value(ps[i]) ELSE 0]),
              shortValue |->
                SumSeq([i \in 1..Len(ps) |->
                          IF ps[i].quantity < 0 THEN -value(ps[i]) ELSE 0]) ]
        metrics(a, v) ==
            LET req == calculateMarginRequirements(cfg, v.longValue, v.shortValue)
                cash == a.settledCash
                equity == cash + v.marketValue - a.feesDue
                mr == req.maintenanceRequired
            IN  [ longValue |-> v.longValue,
                  shortValue |-> v.shortValue,
                  marketValue |-> v.marketValue,
                  equity |-> equity,
                  initialRequired |->
                    roundMoney(req.initialRequired[1], req.initialRequired[2]),
                  maintenanceRequired |-> roundMoney(mr[1], mr[2]),
                  marginExcess |-> roundMoney(equity * mr[2] - mr[1], mr[2]),
                  availableCash |-> availableCash(a) ]
    IN  Once(account,
             LAMBDA a : Once(sums(a.positions), LAMBDA v : metrics(a, v)))

computeMetrics(cfg, idx, account) ==
    LET value(p) == p.quantity * peekQuote(idx, p.symbol).mid
        sums(ps) ==
            [ marketValue |-> SumSeq([i \in 1..Len(ps) |-> value(ps[i])]),
              longValue |->
                SumSeq([i \in 1..Len(ps) |->
                          IF ps[i].quantity > 0 THEN value(ps[i]) ELSE 0]),
              shortValue |->
                SumSeq([i \in 1..Len(ps) |->
                          IF ps[i].quantity < 0 THEN -value(ps[i]) ELSE 0]) ]
        metrics(a, v) ==
            LET req == calculateMarginRequirements(cfg, v.longValue, v.shortValue)
                cash == a.settledCash + a.unsettledCash
                equity == cash + v.marketValue - a.feesDue
                mr == req.maintenanceRequired
            IN  [ longValue |-> v.longValue,
                  shortValue |-> v.shortValue,
                  marketValue |-> v.marketValue,
                  equity |-> equity,
                  initialRequired |->
                    roundMoney(req.initialRequired[1], req.initialRequired[2]),
                  maintenanceRequired |-> roundMoney(mr[1], mr[2]),
                  marginExcess |-> roundMoney(equity * mr[2] - mr[1], mr[2]),
                  availableCash |-> availableCash(a) ]
    IN  Once(account,
             LAMBDA a : Once(sums(a.positions), LAMBDA v : metrics(a, v)))

\* mutation: only a negative equity counts as a deficiency
hasMaintenanceDeficiencyBelowZero(metrics) == metrics.equity < 0

hasMaintenanceDeficiency(metrics) == metrics.equity < metrics.maintenanceRequired

\* account.positions[symbol] = entry / delete account.positions[symbol]
\* mutation: the position is written after the trade has been recorded
SetPositionLater(ps, symbol, updated) == ps

SetPosition(ps, symbol, updated) ==
    LET at == { i \in 1..Len(ps) : ps[i].key = symbol }
        entry == [ key |-> symbol, symbol |-> symbol,
                   quantity |-> updated.quantity, avgPrice |-> updated.avgPrice ]
    IN  IF at = {} THEN Append(ps, entry)
        ELSE [i \in 1..Len(ps) |-> IF i \in at THEN entry ELSE ps[i]]

DeletePositionKept(ps, symbol) ==
    [ i \in 1..Len(ps) |->
        IF ps[i].key = symbol THEN [ps[i] EXCEPT !.quantity = 0] ELSE ps[i] ]

\* delete account.positions[symbol]
DeletePosition(ps, symbol) == SelectSeq(ps, LAMBDA p : p.key # symbol)

deltaQtyUnsigned(isBuy, quantity) == quantity

\* #applyTrade: isBuy ? order.quantity : -order.quantity
deltaQtyOf(isBuy, quantity) == IF isBuy THEN quantity ELSE -quantity

\* mutation: a purchase is paid from settledCash when it fills
applyTradePaidAtOnce(cfg, t, account, order, fillPrice, notional, fees) ==
    LET isBuy == sideIsBuy(order.side)
        entry == [ amount |-> notional,
                   direction |-> IF isBuy THEN "DEBIT" ELSE "CREDIT",
                   settleAt |-> nextBusinessDay(t, cfg.settlementDaysEquities),
                   symbol |-> order.symbol ]
    IN  [ account EXCEPT
            !.settledCash = IF isBuy THEN @ - notional ELSE @,
            !.unsettledCash = IF isBuy THEN @ ELSE @ + notional,
            !.pendingSettlements = Append(@, entry),
            !.feesDue = @ + fees ]

\* #applyTrade: the position, the cash bucket, the pending settlement and
\* the fees of a fill
applyTrade(cfg, t, account, order, fillPrice, notional, fees) ==
    LET isBuy == sideIsBuy(order.side)
        deltaQty == deltaQtyOf(isBuy, order.quantity[1])
        current == IF HasPosition(account, order.symbol)
                   THEN PositionOf(account, order.symbol)
                   ELSE [symbol |-> order.symbol, quantity |-> 0, avgPrice |-> 0]
        fine == updateSignedPosition(
                    [current EXCEPT !.quantity = @ * QtyScale],
                    deltaQty * QtyScale, fillPrice)
        updated == [fine EXCEPT !.quantity = @ \div QtyScale]
        positions == IF updated.quantity = 0
                     THEN DeletePosition(account.positions, order.symbol)
                     ELSE SetPosition(account.positions, order.symbol, updated)
        settleAt == nextBusinessDay(t, cfg.settlementDaysEquities)
        entry == [ amount |-> notional,
                   direction |-> IF isBuy THEN "DEBIT" ELSE "CREDIT",
                   settleAt |-> settleAt, symbol |-> order.symbol ]
    IN  [ account EXCEPT
            !.positions = positions,
            !.reservedCash = IF isBuy THEN @ + notional ELSE @,
            !.unsettledCash = IF isBuy THEN @ ELSE @ + notional,
            !.pendingSettlements = Append(@, entry),
            !.feesDue = @ + fees ]

\* mutation: a settled purchase stays reserved
RECURSIVE SettleEntriesStillReserved(_, _)
SettleEntriesStillReserved(account, due) ==
    IF due = <<>> THEN account
    ELSE LET entry == Head(due)
             next == IF entry.direction = "DEBIT"
                     THEN [account EXCEPT !.settledCash = @ - entry.amount]
                     ELSE [ account EXCEPT
                              !.settledCash = @ + entry.amount,
                              !.unsettledCash = @ - entry.amount ]
         IN  SettleEntriesStillReserved(next, Tail(due))

\* #settleDueEntries, the loop over the due entries (lines 466-474)
RECURSIVE SettleEntries(_, _)
SettleEntries(account, due) ==
    IF due = <<>> THEN account
    ELSE LET entry == Head(due)
             next == IF entry.direction = "DEBIT"
                     THEN [ account EXCEPT
                              !.settledCash = @ - entry.amount,
                              !.reservedCash = Max(0, @ - entry.amount) ]
                     ELSE [ account EXCEPT
                              !.settledCash = @ + entry.amount,
                              !.unsettledCash = @ - entry.amount ]
         IN  SettleEntries(next, Tail(due))

\* mutation: the fee drain clears feesDue without charging settledCash
settleDueEntriesFeesWaived(t, account) ==
    LET due == SelectSeq(account.pendingSettlements, LAMBDA e : e.settleAt <= t)
        pending == SelectSeq(account.pendingSettlements, LAMBDA e : ~(e.settleAt <= t))
        settled == SettleEntries([account EXCEPT !.pendingSettlements = pending], due)
    IN  IF settled.feesDue > 0
        THEN [settled EXCEPT !.feesDue = 0]
        ELSE settled

\* mutation: every pending entry is settled, due or not
settleDueEntriesAhead(t, account) ==
    LET settled == SettleEntries([account EXCEPT !.pendingSettlements = <<>>],
                                 account.pendingSettlements)
    IN  IF settled.feesDue > 0
        THEN [settled EXCEPT !.settledCash = @ - settled.feesDue, !.feesDue = 0]
        ELSE settled

settleDueEntries(t, account) ==
    LET due == SelectSeq(account.pendingSettlements, LAMBDA e : e.settleAt <= t)
        pending == SelectSeq(account.pendingSettlements, LAMBDA e : ~(e.settleAt <= t))
        settled == SettleEntries([account EXCEPT !.pendingSettlements = pending], due)
    IN  IF settled.feesDue > 0
        THEN [settled EXCEPT !.settledCash = @ - settled.feesDue, !.feesDue = 0]
        ELSE settled

\* mutation: a day change expires the OPEN orders
applyBorrowFeesExpiringOrders(cfg, idx, t, account) ==
    LET today == toIsoDate(t)
        days == Max(0, today - account.lastBorrowFeeDate)
        ps == account.positions
        shortValue ==
            SumSeq([i \in 1..Len(ps) |->
                      IF ps[i].quantity >= 0 THEN 0
                      ELSE Abs(ps[i].quantity) * peekQuote(idx, ps[i].symbol).mid])
        borrowFee == roundMoney(shortValue * cfg.shortBorrowDailyRate[1] * days,
                                cfg.shortBorrowDailyRate[2])
        expired == [ i \in 1..Len(account.orders) |->
                       IF account.orders[i].status = "OPEN"
                       THEN [account.orders[i] EXCEPT !.status = "CANCELED"]
                       ELSE account.orders[i] ]
    IN  IF account.lastBorrowFeeDate = today THEN account
        ELSE IF days <= 0 THEN [account EXCEPT !.lastBorrowFeeDate = today]
        ELSE [ account EXCEPT
                 !.feesDue = IF borrowFee > 0 THEN @ + borrowFee ELSE @,
                 !.lastBorrowFeeDate = today,
                 !.orders = expired ]

applyBorrowFeesIfNeeded(cfg, idx, t, account) ==
    LET today == toIsoDate(t)
        days == Max(0, today - account.lastBorrowFeeDate)
        ps == account.positions
        shortValue ==
            SumSeq([i \in 1..Len(ps) |->
                      IF ps[i].quantity >= 0 THEN 0
                      ELSE Abs(ps[i].quantity) * peekQuote(idx, ps[i].symbol).mid])
        borrowFee == roundMoney(shortValue * cfg.shortBorrowDailyRate[1] * days,
                                cfg.shortBorrowDailyRate[2])
    IN  IF account.lastBorrowFeeDate = today THEN account
        ELSE IF days <= 0 THEN [account EXCEPT !.lastBorrowFeeDate = today]
        ELSE [ account EXCEPT
                 !.feesDue = IF borrowFee > 0 THEN @ + borrowFee ELSE @,
                 !.lastBorrowFeeDate = today ]

\* mutation: mid has to go beyond the stop
evaluateTriggerBeyond(order, quote) ==
    IF order.type = "MARKET" \/ order.type = "LIMIT" THEN "NOT_REQUIRED"
    ELSE LET triggered == IF sideIsBuy(order.side)
                          THEN quote.mid > order.stopPrice[1]
                          ELSE quote.mid < order.stopPrice[1]
         IN  IF ~triggered THEN "PENDING_TRIGGER"
             ELSE IF order.type = "STOP" THEN "TRIGGERED_TO_MARKET"
             ELSE "TRIGGERED_TO_LIMIT"

evaluateTrigger(order, quote) ==
    IF order.type = "MARKET" \/ order.type = "LIMIT" THEN "NOT_REQUIRED"
    ELSE LET triggered == IF sideIsBuy(order.side)
                          THEN quote.mid >= order.stopPrice[1]
                          ELSE quote.mid <= order.stopPrice[1]
         IN  IF ~triggered THEN "PENDING_TRIGGER"
             ELSE IF order.type = "STOP" THEN "TRIGGERED_TO_MARKET"
             ELSE "TRIGGERED_TO_LIMIT"

\* mutation: a sell-side limit is compared with ask
evaluateFillConditionOnAsk(effectiveType, order, quote) ==
    IF effectiveType = "MARKET" THEN TRUE
    ELSE IF sideIsBuy(order.side) THEN quote.ask <= order.limitPrice[1]
    ELSE quote.ask >= order.limitPrice[1]

evaluateFillCondition(effectiveType, order, quote) ==
    IF effectiveType = "MARKET" THEN TRUE
    ELSE IF sideIsBuy(order.side) THEN quote.ask <= order.limitPrice[1]
    ELSE quote.bid >= order.limitPrice[1]

\* the verdict of #simulatePostTrade: "ok" or the reject reason
simulatePostTrade(cfg, idx, t, account, order, fillPrice, notional, fees) ==
    LET draft == applyTrade(cfg, t, account, order, fillPrice, notional, fees)
        metrics == computeMetrics(cfg, idx, draft)
    IN  IF availableCash(draft) < 0
        THEN "insufficient available buying power / margin"
        ELSE IF metrics.equity < metrics.initialRequired
        THEN "insufficient available buying power / margin"
        ELSE "ok"

ORDER_STATUS == [OPEN |-> "OPEN", FILLED |-> "FILLED",
                 REJECTED |-> "REJECTED", CANCELED |-> "CANCELED"]

rejectOrderLeftOpen(account, baseOrder, reason) ==
    [ account EXCEPT !.orders = <<[baseOrder EXCEPT !.reason = reason]>> \o @ ]

\* #rejectOrder: the account with the rejected order prepended
rejectOrder(account, baseOrder, reason) ==
    [ account EXCEPT
        !.orders = <<[baseOrder EXCEPT !.status = ORDER_STATUS.REJECTED,
                                       !.reason = reason]>> \o @ ]

toAccountView(cfg, idx, account) ==
    LET metrics == computeMetrics(cfg, idx, account)
    IN  [ id |-> account.id,
          balances |-> [ settledCash |-> account.settledCash,
                         unsettledCash |-> account.unsettledCash,
                         availableCash |-> metrics.availableCash,
                         reservedCash |-> account.reservedCash ],
          equity |-> metrics.equity,
          margin |-> [ longValue |-> metrics.longValue,
                       shortValue |-> metrics.shortValue,
                       initialRequired |-> metrics.initialRequired,
                       maintenanceRequired |-> metrics.maintenanceRequired,
                       marginExcess |-> metrics.marginExcess ],
          feesDue |-> account.feesDue,
          openPositions |-> Len(account.positions),
          openOrders |-> Cardinality(SelectIdx(account.orders,
                           LAMBDA o : o.status = ORDER_STATUS.OPEN)) ]

-----------------------------------------------------------------------------
(* One BrokerService instance with its provider and clock is a record      *)
(* w = [config, accounts, index, rng, now, calls].  An async call is a     *)
(* stack of frames (a forced liquidation calls placeOrder from inside a    *)
(* refresh); one step runs the top frame from one await to the next.       *)

\* frames a call stack holds before the model stops following the recursion
MaxDepth == 3

NoReason == "null"

Frame(op, acct, raw, after) ==
    [ op |-> op, acct |-> acct, raw |-> raw, pc |-> "refresh", after |-> after,
      loc |-> Null, forced |-> Null, ret |-> Null, exit |-> "", sim |-> Null,
      spin |-> 0 ]

Depth(w, c) == Len(w.calls[c])
Top(w, c) == w.calls[c][Len(w.calls[c])]
SetTop(w, c, f) == [w EXCEPT !.calls[c][Len(w.calls[c])] = f]

\* the frame of a call that has ended, with what it returned or threw
Finish(f, ret, exit) ==
    [f EXCEPT !.pc = "done", !.loc = Null, !.forced = Null, !.ret = ret, !.exit = exit]

OrderRet(o) == [kind |-> "order", order |-> o]
ErrorRet(e) == [kind |-> "error", error |-> e]

\* #applyBorrowFeesIfNeeded gets as far as `await peekQuote`: the date has
\* changed, days > 0 and the account holds a short position
AwaitsBorrowQuote(t, account) ==
    /\ toIsoDate(t) - account.lastBorrowFeeDate > 0
    /\ \E i \in 1..Len(account.positions) : account.positions[i].quantity < 0

\* mutation: the refresh settles nothing
refreshLedgerUnsettled(w, a) ==
    [w EXCEPT !.accounts[a] = applyBorrowFeesIfNeeded(w.config, w.index, w.now, @)]

\* mutation: the refresh goes over every account
refreshLedgerOfAll(w, a) ==
    [w EXCEPT !.accounts =
        [b \in DOMAIN w.accounts |->
            applyBorrowFeesIfNeeded(w.config, w.index, w.now,
                                    settleDueEntries(w.now, w.accounts[b]))]]

\* #settleDueEntries, then #applyBorrowFeesIfNeeded: the part of
\* #refreshAccount that runs before anything is awaited.  The borrow fees
\* are applied here unless the loop over the short positions has a quote to
\* await
refreshLedger(w, a) ==
    LET settled == settleDueEntries(w.now, w.accounts[a])
    IN  [w EXCEPT !.accounts[a] =
            IF AwaitsBorrowQuote(w.now, settled) THEN settled
            ELSE applyBorrowFeesIfNeeded(w.config, w.index, w.now, settled)]

\* #applyBorrowFeesIfNeeded suspended at its first `await peekQuote`, with
\* what it has read so far: today, the days elapsed, the positions to go
\* over and the quote of the first short position
AwaitBorrowFees(w, c) ==
    LET f == Top(w, c)
        account == w.accounts[f.acct]
        shorts == SelectSeq(account.positions, LAMBDA p : p.quantity < 0)
    IN  IF ~AwaitsBorrowQuote(w.now, account) THEN w
        ELSE SetTop(w, c,
                [f EXCEPT !.loc =
                    [ today |-> toIsoDate(w.now),
                      days |-> toIsoDate(w.now) - account.lastBorrowFeeDate,
                      shorts |-> shorts,
                      mid |-> peekQuote(w.index, Head(shorts).symbol).mid,
                      shortValue |-> 0 ]])

\* mutation: the order id is drawn before the account is looked up
InvokeDrawing(w, c, op, acctId, raw) ==
    IF acctId \notin DOMAIN w.accounts
    THEN [w EXCEPT !.rng = IF op = "placeOrder" THEN rngNext(@) ELSE @,
                   !.calls[c] =
                     Append(@, Finish(Frame(op, acctId, raw, ""),
                                      ErrorRet("account_not_found"), "account_not_found"))]
    ELSE LET after == IF op = "placeOrder" THEN "body" ELSE "view"
         IN  AwaitBorrowFees(
                 refreshLedger([w EXCEPT !.calls[c] =
                                   Append(@, Frame(op, acctId, raw, after))],
                               acctId), c)

\* #requireAccount and the start of the refresh every operation opens with
Invoke(w, c, op, acctId, raw) ==
    IF acctId \notin DOMAIN w.accounts
    THEN [w EXCEPT !.calls[c] =
            Append(@, Finish(Frame(op, acctId, raw, ""),
                             ErrorRet("account_not_found"), "account_not_found"))]
    ELSE LET after == IF op = "placeOrder" THEN "body" ELSE "view"
         IN  AwaitBorrowFees(
                 refreshLedger([w EXCEPT !.calls[c] =
                                   Append(@, Frame(op, acctId, raw, after))],
                               acctId), c)

\* mutation: the positions are not sorted by value
LargestPositionUnsorted(idx, account) == account.positions[1]

\* #forceLiquidateLargestPosition: the position sort() puts first
LargestPosition(idx, account) ==
    LET ps == account.positions
        absValue(i) == Abs(ps[i].quantity * peekQuote(idx, ps[i].symbol).mid)
        best == CHOOSE i \in 1..Len(ps) :
                    /\ \A j \in 1..Len(ps) : absValue(j) <= absValue(i)
                    /\ \A j \in 1..(i - 1) : absValue(j) < absValue(i)
    IN  ps[best]

ForcedOrder(target) ==
    [ symbol |-> target.symbol, type |-> "MARKET",
      side |-> IF target.quantity > 0 THEN "SELL" ELSE "BUY_TO_COVER",
      quantity |-> Num(Abs(target.quantity)), tif |-> "IOC",
      limitPrice |-> Null, stopPrice |-> Null, _bypassMarginCheck |-> TRUE ]

\* the refresh is over: the operation that awaited it goes on
EndRefresh(w, c) ==
    LET f == Top(w, c)
    IN  IF f.after = "return"
        THEN SetTop(w, c, [f EXCEPT !.pc = "done", !.loc = Null, !.forced = Null])
        ELSE SetTop(w, c, [f EXCEPT !.pc = f.after, !.forced = Null])

\* mutation: the borrow fee is charged to settledCash as well
StepBorrowFeesChargedTwice(w, c) ==
    LET f == Top(w, c)
        l == f.loc
        shortValue == l.shortValue + Abs(Head(l.shorts).quantity) * l.mid
        rate == w.config.shortBorrowDailyRate
        borrowFee == roundMoney(shortValue * rate[1] * l.days, rate[2])
    IN  SetTop([w EXCEPT !.accounts[f.acct] =
                    [@ EXCEPT !.feesDue = @ + borrowFee,
                              !.settledCash = @ - borrowFee,
                              !.lastBorrowFeeDate = l.today]],
               c, [f EXCEPT !.loc = Null])

\* #applyBorrowFeesIfNeeded resumed with the quote it awaited: the next short
\* position, or the fee and the date
StepBorrowFees(w, c) ==
    LET f == Top(w, c)
        l == f.loc
        shortValue == l.shortValue + Abs(Head(l.shorts).quantity) * l.mid
        rest == Tail(l.shorts)
        rate == w.config.shortBorrowDailyRate
        borrowFee == roundMoney(shortValue * rate[1] * l.days, rate[2])
    IN  IF rest # <<>>
        THEN SetTop(w, c,
                [f EXCEPT !.loc =
                    [l EXCEPT !.shorts = rest, !.shortValue = shortValue,
                              !.mid = peekQuote(w.index, Head(rest).symbol).mid]])
        ELSE SetTop([w EXCEPT !.accounts[f.acct] =
                        [@ EXCEPT !.feesDue = IF borrowFee > 0 THEN @ + borrowFee ELSE @,
                                  !.lastBorrowFeeDate = l.today]],
                    c, [f EXCEPT !.loc = Null])

NeedsLiquidation(w, a) ==
    /\ w.config.forceLiquidationEnabled
    /\ hasMaintenanceDeficiency(computeMetrics(w.config, w.index, w.accounts[a]))
    /\ Len(w.accounts[a].positions) > 0

\* #refreshAccount after the borrow fees: the maintenance check and the
\* forced liquidation, up to its call of placeOrder
StepRefresh(w, c) ==
    LET f == Top(w, c)
        raw == ForcedOrder(LargestPosition(w.index, w.accounts[f.acct]))
    IN  IF f.loc # Null THEN StepBorrowFees(w, c)
        ELSE IF ~NeedsLiquidation(w, f.acct) THEN EndRefresh(w, c)
        ELSE IF Depth(w, c) >= MaxDepth
        THEN refreshLedger(SetTop(w, c, [f EXCEPT !.pc = "overflow", !.forced = raw]),
                           f.acct)
        ELSE Invoke(SetTop(w, c, [f EXCEPT !.pc = "forced", !.forced = raw]),
                    c, "placeOrder", f.acct, raw)

\* the recursion below MaxDepth frames, not followed frame by frame: each
\* further placeOrder refreshes, finds the deficiency and calls placeOrder
StepOverflow(w, c) ==
    LET f == Top(w, c)
    IN  refreshLedger(SetTop(w, c, [f EXCEPT !.spin = 1 - @]), f.acct)

Marker(w, f) ==
    [ id |-> [ts |-> w.now, rand |-> -1],
      accountId |-> f.acct, symbol |-> f.forced.symbol, type |-> "MARKET",
      side |-> f.forced.side, tif |-> "IOC", quantity |-> f.forced.quantity,
      limitPrice |-> Null, stopPrice |-> Null,
      status |-> ORDER_STATUS.REJECTED,
      reason |-> "margin_call_forced_liquidation_failed",
      createdAt |-> w.now, filledAt |-> Null, fillPrice |-> Null, fees |-> 0,
      triggerState |-> "", effectiveType |-> "" ]

\* the forced placeOrder has returned to #forceLiquidateLargestPosition
StepForcedReturn(w, c) ==
    LET nested == Top(w, c)
        popped == [w EXCEPT !.calls[c] = SubSeq(@, 1, Len(@) - 1)]
        f == Top(popped, c)
    IN  IF nested.ret.kind = "error"
        THEN SetTop(popped, c, Finish(f, nested.ret, "exception"))
        ELSE IF nested.ret.order.status = ORDER_STATUS.REJECTED
        THEN EndRefresh([popped EXCEPT !.accounts[f.acct].orders =
                            <<Marker(popped, f)>> \o @], c)
        ELSE EndRefresh(popped, c)

newIdFromClock(t, r) == [ts |-> t, rand |-> t % 10000]

\* an id `ORD-${Date.now()}-${Math.floor(this.rng() * 10000)}`: the clock
\* reading and the suffix drawn from the seeded generator
newId(t, r) == [ts |-> t, rand |-> rand4(r)]

\* mutation: the provider's error is not caught
StepBodyUncaught(w, c) ==
    LET f == Top(w, c)
        account == w.accounts[f.acct]
        order == normalizeOrderInput(f.raw)
        bypassMarginCheck == f.raw._bypassMarginCheck = TRUE
        r == rngNext(w.rng)
        baseOrder ==
            [ id |-> newId(w.now, r),
              accountId |-> account.id, symbol |-> order.symbol,
              type |-> order.type, side |-> order.side, tif |-> order.tif,
              quantity |-> order.quantity, limitPrice |-> order.limitPrice,
              stopPrice |-> order.stopPrice, status |-> ORDER_STATUS.OPEN,
              reason |-> NoReason, createdAt |-> w.now, filledAt |-> Null,
              fillPrice |-> Null, fees |-> 0,
              triggerState |-> "", effectiveType |-> "" ]
        validationError == validateOrderByType(order)
        quote == quoteAt(w.index, order.symbol)
        w1 == [w EXCEPT !.rng = r]
        reject(reason, exit) ==
            LET acc == rejectOrder(account, baseOrder, reason)
            IN  SetTop([w1 EXCEPT !.accounts[f.acct] = acc], c,
                       Finish(f, OrderRet(Head(acc.orders)), exit))
    IN  IF validationError # NoReason THEN reject(validationError, "validation")
        ELSE IF ~isMarketOpen(w.config, w.now) THEN reject("market closed", "market")
        ELSE IF quote.threw
        THEN SetTop(w1, c, Finish(f, ErrorRet("symbol"), "threw"))
        ELSE SetTop([w1 EXCEPT !.index = advance(@, order.symbol)], c,
                    [f EXCEPT !.pc = "guard",
                              !.loc = [ order |-> order, baseOrder |-> baseOrder,
                                        bypassMarginCheck |-> bypassMarginCheck,
                                        quote |-> quote ]])

\* placeOrder from normalizeOrderInput to the first getQuote
StepBody(w, c) ==
    LET f == Top(w, c)
        account == w.accounts[f.acct]
        order == normalizeOrderInput(f.raw)
        bypassMarginCheck == f.raw._bypassMarginCheck = TRUE
        r == rngNext(w.rng)
        baseOrder ==
            [ id |-> newId(w.now, r),
              accountId |-> account.id, symbol |-> order.symbol,
              type |-> order.type, side |-> order.side, tif |-> order.tif,
              quantity |-> order.quantity, limitPrice |-> order.limitPrice,
              stopPrice |-> order.stopPrice, status |-> ORDER_STATUS.OPEN,
              reason |-> NoReason, createdAt |-> w.now, filledAt |-> Null,
              fillPrice |-> Null, fees |-> 0,
              triggerState |-> "", effectiveType |-> "" ]
        validationError == validateOrderByType(order)
        quote == quoteAt(w.index, order.symbol)
        w1 == [w EXCEPT !.rng = r]
        reject(reason, exit) ==
            LET acc == rejectOrder(account, baseOrder, reason)
            IN  SetTop([w1 EXCEPT !.accounts[f.acct] = acc], c,
                       Finish(f, OrderRet(Head(acc.orders)), exit))
    IN  IF validationError # NoReason THEN reject(validationError, "validation")
        ELSE IF ~isMarketOpen(w.config, w.now) THEN reject("market closed", "market")
        ELSE IF quote.threw THEN reject("unknown symbol", "symbol")
        ELSE SetTop([w1 EXCEPT !.index = advance(@, order.symbol)], c,
                    [f EXCEPT !.pc = "guard",
                              !.loc = [ order |-> order, baseOrder |-> baseOrder,
                                        bypassMarginCheck |-> bypassMarginCheck,
                                        quote |-> quote ]])

\* placeOrder from the maintenance guard to the execution delay
StepGuard(w, c) ==
    LET f == Top(w, c)
        account == w.accounts[f.acct]
        l == f.loc
        triggerState == evaluateTrigger(l.order, l.quote)
    IN  IF /\ ~l.bypassMarginCheck
           /\ hasMaintenanceDeficiency(computeMetrics(w.config, w.index, account))
        THEN LET acc == rejectOrder(account, l.baseOrder,
                                    "margin deficiency: account below maintenance")
             IN  SetTop([w EXCEPT !.accounts[f.acct] = acc], c,
                        Finish(f, OrderRet(Head(acc.orders)), "maintenance"))
        ELSE IF triggerState \in {"PENDING_TRIGGER", "PENDING_LIMIT"}
        THEN SetTop([w EXCEPT !.accounts[f.acct].orders = <<l.baseOrder>> \o @], c,
                    Finish(f, OrderRet(l.baseOrder), "pending_trigger"))
        ELSE SetTop(w, c, [f EXCEPT !.pc = "sleep",
                                    !.loc = [ order |-> l.order,
                                              baseOrder |-> l.baseOrder,
                                              bypassMarginCheck |-> l.bypassMarginCheck,
                                              triggerState |-> triggerState ]])

\* after sleep(executionDelayMs): the second getQuote
StepSleep(w, c) ==
    LET f == Top(w, c)
        executionQuote == quoteAt(w.index, f.loc.order.symbol)
    IN  IF executionQuote.threw
        THEN SetTop(w, c, Finish(f, ErrorRet("exception"), "exception"))
        ELSE SetTop([w EXCEPT !.index = advance(@, f.loc.order.symbol)], c,
                    [f EXCEPT !.pc = "fill",
                              !.loc = [ order |-> f.loc.order,
                                        baseOrder |-> f.loc.baseOrder,
                                        bypassMarginCheck |-> f.loc.bypassMarginCheck,
                                        triggerState |-> f.loc.triggerState,
                                        executionQuote |-> executionQuote ]])

unshiftFillDropped(fills, fill) == fills

\* account.fills.unshift(fill)
unshiftFill(fills, fill) == <<fill>> \o fills

\* lines 306-331: the trade, the FILLED order, the Fill and the start of
\* the closing refresh
Record(w, c, f, l) ==
    LET account == applyTrade(w.config, w.now, w.accounts[f.acct],
                              l.order, l.fillPrice, l.notional, l.fees)
        filledOrder ==
            [ l.baseOrder EXCEPT
                !.status = ORDER_STATUS.FILLED, !.filledAt = Num(w.now),
                !.fillPrice = Num(l.fillPrice), !.fees = l.fees,
                !.triggerState = l.triggerState, !.effectiveType = l.effectiveType ]
        r == rngNext(w.rng)
        fill ==
            [ id |-> newId(w.now, r),
              orderId |-> filledOrder.id, accountId |-> account.id,
              symbol |-> l.order.symbol, side |-> l.order.side,
              quantity |-> l.order.quantity[1], price |-> l.fillPrice,
              notional |-> l.notional, fees |-> l.fees, timestamp |-> w.now ]
        recorded == [ account EXCEPT !.orders = <<filledOrder>> \o @,
                                     !.fills = unshiftFill(@, fill) ]
        posted == [ avail |-> availableCash(account) ]
    IN  AwaitBorrowFees(
          refreshLedger(
            SetTop([w EXCEPT !.accounts[f.acct] = recorded, !.rng = r], c,
                   [f EXCEPT !.pc = "refresh", !.after = "return", !.loc = Null,
                             !.ret = OrderRet(filledOrder), !.exit = "filled",
                             !.sim = [l.sim EXCEPT !.posted = posted.avail]]),
            f.acct), c)

\* placeOrder lines 292-297: the fill price, the notional and the fees
Price(w, c) ==
    LET order == Top(w, c).loc.order
        executionQuote == Top(w, c).loc.executionQuote
        isBuy == sideIsBuy(order.side)
        basePrice == IF isBuy THEN executionQuote.ask ELSE executionQuote.bid
        slippageBps == calcSlippageBps(w.config, rngNext(w.rng), order.quantity[1],
                                       executionQuote.volatilityProxy)
        fillPrice == applyPriceImpact(basePrice, isBuy, slippageBps)
        notional == fillPrice * order.quantity[1]
    IN  [ fillPrice |-> fillPrice, notional |-> notional,
          fees |-> calcFees(w.config, notional) ]

\* the priced order with what #simulatePostTrade finds on its copy
Simulate(w, c, p) ==
    LET f == Top(w, c)
        l == f.loc
        account == w.accounts[f.acct]
        effectiveType ==
            IF l.triggerState = "TRIGGERED_TO_MARKET" THEN "MARKET"
            ELSE IF l.triggerState = "TRIGGERED_TO_LIMIT" THEN "LIMIT"
            ELSE l.order.type
        draft == applyTrade(w.config, w.now, account, l.order,
                            p.fillPrice, p.notional, p.fees)
        dm == computeMetrics(w.config, w.index, draft)
    IN  [ order |-> l.order, baseOrder |-> l.baseOrder,
          triggerState |-> l.triggerState, effectiveType |-> effectiveType,
          fillPrice |-> p.fillPrice, notional |-> p.notional, fees |-> p.fees,
          sim |-> [ bypass |-> l.bypassMarginCheck,
                    availableCash |-> availableCash(draft),
                    equity |-> dm.equity, initialRequired |-> dm.initialRequired,
                    posted |-> 0 ],
          verdict |-> simulatePostTrade(w.config, w.index, w.now, account, l.order,
                                        p.fillPrice, p.notional, p.fees) ]

\* the fillable order goes to the simulation, or past it
Fill(w, c, l2) ==
    LET f == Top(w, c)
        w1 == [w EXCEPT !.rng = rngNext(w.rng)]
    IN  IF f.loc.bypassMarginCheck THEN Record(w1, c, f, l2)
        ELSE SetTop(w1, c, [f EXCEPT !.pc = "simulated", !.loc = l2])

\* placeOrder from the fill condition to the post-trade simulation
StepFill(w, c) ==
    LET f == Top(w, c)
        l == f.loc
        effectiveType ==
            IF l.triggerState = "TRIGGERED_TO_MARKET" THEN "MARKET"
            ELSE IF l.triggerState = "TRIGGERED_TO_LIMIT" THEN "LIMIT"
            ELSE l.order.type
    IN  IF ~evaluateFillCondition(effectiveType, l.order, l.executionQuote)
        THEN SetTop([w EXCEPT !.accounts[f.acct].orders = <<l.baseOrder>> \o @], c,
                    Finish(f, OrderRet(l.baseOrder), "unfillable"))
        ELSE Once(Price(w, c),
                  LAMBDA p : Once(Simulate(w, c, p), LAMBDA l2 : Fill(w, c, l2)))

\* mutation: the simulation applies the trade to the account itself
StepSimulatedInPlace(w, c) ==
    LET f == Top(w, c)
        l == f.loc
        account == applyTrade(w.config, w.now, w.accounts[f.acct], l.order,
                              l.fillPrice, l.notional, l.fees)
    IN  IF l.verdict # "ok"
        THEN LET acc == rejectOrder(account, l.baseOrder, l.verdict)
             IN  SetTop([w EXCEPT !.accounts[f.acct] = acc], c,
                        [Finish(f, OrderRet(Head(acc.orders)), "simulation")
                           EXCEPT !.sim = l.sim])
        ELSE Record(w, c, f, l)

\* #simulatePostTrade has returned
StepSimulated(w, c) ==
    LET f == Top(w, c)
        account == w.accounts[f.acct]
    IN  IF f.loc.verdict # "ok"
        THEN LET acc == rejectOrder(account, f.loc.baseOrder, f.loc.verdict)
             IN  SetTop([w EXCEPT !.accounts[f.acct] = acc], c,
                        [Finish(f, OrderRet(Head(acc.orders)), "simulation")
                           EXCEPT !.sim = f.loc.sim])
        ELSE Record(w, c, f, f.loc)

\* mutation: getPositions reads the advancing quote of each position
StepViewAdvancing(w, c) ==
    LET f == Top(w, c)
        account == w.accounts[f.acct]
        ps == account.positions
        row(p) ==
            LET quote == peekQuote(w.index, p.symbol)
                pnl == calculatePositionPnl(p, quote.mid)
            IN  [ symbol |-> p.symbol, quantity |-> p.quantity,
                  avgPrice |-> p.avgPrice, mid |-> quote.mid,
                  marketValue |-> pnl.marketValue,
                  unrealizedPnl |-> pnl.unrealizedPnl ]
        ret ==
            CASE f.op = "getAccount" ->
                   [kind |-> "view", view |-> toAccountView(w.config, w.index, account)]
              [] f.op = "getPositions" ->
                   [kind |-> "list", list |-> [i \in 1..Len(ps) |-> row(ps[i])]]
              [] f.op = "getOrders" ->
                   [ kind |-> "list",
                     list |-> IF f.raw = "" THEN account.orders
                              ELSE SelectSeq(account.orders,
                                     LAMBDA o : o.status = toUpperCase(f.raw)) ]
              [] OTHER -> [kind |-> "list", list |-> account.fills]
        read == IF f.op = "getPositions" /\ ps # <<>>
                THEN [w EXCEPT !.index = advance(@, ps[1].symbol)]
                ELSE w
    IN  SetTop(read, c, Finish(f, ret, "returned"))

\* what a read returns once its refresh is over
StepView(w, c) ==
    LET f == Top(w, c)
        account == w.accounts[f.acct]
        ps == account.positions
        row(p) ==
            LET quote == peekQuote(w.index, p.symbol)
                pnl == calculatePositionPnl(p, quote.mid)
            IN  [ symbol |-> p.symbol, quantity |-> p.quantity,
                  avgPrice |-> p.avgPrice, mid |-> quote.mid,
                  marketValue |-> pnl.marketValue,
                  unrealizedPnl |-> pnl.unrealizedPnl ]
        ret ==
            CASE f.op = "getAccount" ->
                   [kind |-> "view", view |-> toAccountView(w.config, w.index, account)]
              [] f.op = "getPositions" ->
                   [kind |-> "list", list |-> [i \in 1..Len(ps) |-> row(ps[i])]]
              [] f.op = "getOrders" ->
                   [ kind |-> "list",
                     list |-> IF f.raw = "" THEN account.orders
                              ELSE SelectSeq(account.orders,
                                     LAMBDA o : o.status = toUpperCase(f.raw)) ]
              [] OTHER -> [kind |-> "list", list |-> account.fills]
    IN  SetTop(w, c, Finish(f, ret, "returned"))

\* a call can take a step
Runnable(w, c) ==
    /\ w.calls[c] # <<>>
    /\ \/ Top(w, c).pc \in {"refresh", "body", "guard", "sleep", "fill", "simulated", "view"}
       \/ Top(w, c).pc = "done" /\ Depth(w, c) > 1
       \/ Top(w, c).pc = "overflow" /\ NeedsLiquidation(w, Top(w, c).acct)

Step(w, c) ==
    LET pc == Top(w, c).pc
    IN  CASE pc = "refresh" -> StepRefresh(w, c)
          [] pc = "overflow" -> StepOverflow(w, c)
          [] pc = "done" -> StepForcedReturn(w, c)
          [] pc = "body" -> StepBody(w, c)
          [] pc = "guard" -> StepGuard(w, c)
          [] pc = "sleep" -> StepSleep(w, c)
          [] pc = "fill" -> StepFill(w, c)
          [] pc = "simulated" -> StepSimulated(w, c)
          [] OTHER -> StepView(w, c)

\* the call has returned to its caller, or thrown
Returned(w, c) == Depth(w, c) = 1 /\ Top(w, c).pc = "done"
\* the call recurses without end
Hung(w, c) == w.calls[c] # <<>> /\ Top(w, c).pc = "overflow"

\* a call run from its invocation until it returns, with nothing else
\* scheduled in between
RECURSIVE Run(_, _)
Run(w, c) == IF Returned(w, c) \/ Hung(w, c) THEN w ELSE Run(Step(w, c), c)

-----------------------------------------------------------------------------
(* Operations of BrokerService on an instance *)

AccountIds == <<"ACC1", "ACC2">>
UnknownAccount == "ACC0"

createAccount(w, initialCapital) ==
    LET r == rngNext(w.rng)
        accountId == AccountIds[Cardinality(DOMAIN w.accounts) + 1]
        account ==
            [ id |-> accountId, createdAt |-> w.now, idRand |-> rand4(r),
              settledCash |-> initialCapital, unsettledCash |-> 0,
              reservedCash |-> 0, feesDue |-> 0, positions |-> <<>>,
              orders |-> <<>>, fills |-> <<>>, pendingSettlements |-> <<>>,
              lastBorrowFeeDate |-> toIsoDate(w.now) ]
    IN  [w EXCEPT !.rng = r, !.accounts = (accountId :> account) @@ @]

\* BrokerService.getQuote: the provider's advancing quote
getQuote(w, symbol) ==
    [w EXCEPT !.index = advance(@, toUpperCase(symbol))]

\* mutation: every order is answered 201
postOrderStatusCreated(ret) ==
    IF ret.kind = "order" THEN 201
    ELSE IF ret.error = "account_not_found" THEN 404
    ELSE 500

\* app.js POST /accounts/:id/orders: the status of the response to what
\* placeOrder returned, or threw
postOrderStatus(ret) ==
    IF ret.kind = "order"
    THEN IF ret.order.status = "REJECTED" THEN 400 ELSE 201
    ELSE IF ret.error = "account_not_found" THEN 404
    ELSE 500

\* a caller invokes an operation and awaits it while nothing else runs
Await(w, c, op, acctId, raw) ==
    Run(Invoke([w EXCEPT !.calls[c] = <<>>], c, op, acctId, raw), c)

-----------------------------------------------------------------------------
(* Bounds and inputs of the model *)

MaxCalls == 2
MaxAccounts == 1
MaxOrders == 2
MaxQuotes == 1
MaxNow == 2

Callers == 1..MaxCalls

Capitals == {4 * MoneyScale}

O(symbol, type, side, tif, quantity, limitPrice, stopPrice, bypass) ==
    [ symbol |-> symbol, type |-> type, side |-> side, tif |-> tif,
      quantity |-> quantity, limitPrice |-> limitPrice, stopPrice |-> stopPrice,
      _bypassMarginCheck |-> bypass ]

Px(units, cents) == Num(units * MoneyScale + cents * (MoneyScale \div 100))

RawOrders ==
    { O("AAPL", "MARKET", "BUY", "DAY", Num(1), Null, Null, FALSE),
      O("AAPL", "MARKET", "BUY", "", Num(3), Null, Null, FALSE),
      O("AAPL", "MARKET", "BUY", "IOC", Num(3), Null, Null, TRUE),
      O("aapl", "market", "sell", "day", Num(1), Null, Null, FALSE),
      O("TSLA", "MARKET", "SELL_SHORT", "DAY", Num(1), Null, Null, FALSE),
      O("AAPL", "LIMIT", "BUY", "GTC", Num(1), Px(2, 50), Null, FALSE),
      O("AAPL", "STOP", "BUY", "DAY", Num(1), Null, Px(2, 50), FALSE),
      O("AAPL", "MARKET", "BUY", "DAY", Null, Null, Null, FALSE),
      O("MSFT", "MARKET", "BUY", "DAY", Num(1), Null, Null, FALSE) }

\* the orders of overlapping clients
OverlapOrders ==
    { O("AAPL", "MARKET", "BUY", "DAY", Num(1), Null, Null, FALSE),
      O("AAPL", "MARKET", "SELL", "DAY", Num(1), Null, Null, FALSE),
      O("TSLA", "MARKET", "SELL_SHORT", "DAY", Num(1), Null, Null, FALSE) }

\* the orders that open a position a price move can put under water
MarginOrders ==
    { O("TSLA", "MARKET", "SELL_SHORT", "DAY", Num(1), Null, Null, FALSE) }

Configs == { defaultBrokerConfig }

LiquidatingConfigs ==
    { [defaultBrokerConfig EXCEPT !.forceLiquidationEnabled = e] : e \in BOOLEAN }

-----------------------------------------------------------------------------
(* The instance as the variables hold it *)

W == [ config |-> config, accounts |-> accounts, index |-> index,
       rng |-> rng, now |-> now, calls |-> calls ]

Commit(w) ==
    /\ accounts' = w.accounts
    /\ index' = w.index
    /\ rng' = w.rng
    /\ calls' = w.calls
    /\ UNCHANGED <<config, now>>

NewInstance(cfg) ==
    [ config |-> cfg, accounts |-> <<>>, index |-> [s \in Symbols |-> 0],
      rng |-> createSeededRng(cfg.seed), now |-> 0,
      calls |-> [c \in Callers |-> <<>>] ]

NewBudget(callers, orders) ==
    [ quotes |-> MaxQuotes, callers |-> callers, orders |-> orders,
      capitals |-> Capitals, maxNow |-> MaxNow, jump |-> 1,
      maxOrders |-> MaxOrders, accounts |-> MaxAccounts ]

\* a fresh instance and what the clients may do with it
InitBudget(cfgs, b) ==
    /\ config \in cfgs
    /\ accounts = <<>>
    /\ index = [s \in Symbols |-> 0]
    /\ rng = createSeededRng(config.seed)
    /\ now = 0
    /\ calls = [c \in Callers |-> <<>>]
    /\ budget = b
    /\ snapshot = Null

InitWith(cfgs, callers, orders) == InitBudget(cfgs, NewBudget(callers, orders))

TotalOrders(w) ==
    SumSeq([i \in 1..Cardinality(DOMAIN w.accounts) |->
              Len(w.accounts[AccountIds[i]].orders)])

\* placeOrder calls in flight: each adds an order unless it throws
InFlight(w) ==
    Cardinality({c \in Callers : w.calls[c] # <<>> /\ w.calls[c][1].op = "placeOrder"
                                   /\ ~Returned(w, c)})

KnownIds(w) == DOMAIN w.accounts \cup {UnknownAccount}

\* a client that may start a call: it has none in flight
Free(c) == c <= budget.callers /\ calls[c] = <<>>

Idle == \A c \in Callers : calls[c] = <<>>

\* the instance when the first of the overlapping placeOrder calls began,
\* and those calls
Started(c, a, raw) ==
    IF budget.callers = 1 THEN Null
    ELSE IF a \notin DOMAIN accounts THEN snapshot
    ELSE IF InFlight(W) = 0 THEN [w |-> W, started |-> <<[c |-> c, acct |-> a, raw |-> raw]>>]
    ELSE [snapshot EXCEPT !.started = Append(@, [c |-> c, acct |-> a, raw |-> raw])]

\* a second instance, when there is one, is given the same operation
Twin(F(_)) == IF twin = Null THEN Null ELSE [twin EXCEPT !.w = F(@)]

TwinRunnable(c) == twin # Null /\ Runnable(twin.w, c)

-----------------------------------------------------------------------------
(* The operations of one instance.  A call runs from await to await         *)
(* (Proceed) and hands its result to the client (Return); a client starts   *)
(* its next call when the last one has returned.                             *)

CreateAccount ==
    /\ Idle
    /\ Cardinality(DOMAIN accounts) < budget.accounts
    /\ \E cap \in budget.capitals :
          /\ \E w \in {createAccount(W, cap)} : Commit(w)
          /\ twin' = Twin(LAMBDA w : createAccount(w, cap))
    /\ UNCHANGED <<budget, fn, snapshot>>

PlaceOrder ==
    /\ TotalOrders(W) + InFlight(W) < budget.maxOrders
    /\ \E c \in Callers, a \in KnownIds(W), raw \in budget.orders :
          /\ Free(c)
          /\ \E w \in {Invoke(W, c, "placeOrder", a, raw)} : Commit(w)
          /\ twin' = Twin(LAMBDA w : Invoke(w, c, "placeOrder", a, raw))
          /\ snapshot' = Started(c, a, raw)
    /\ UNCHANGED <<budget, fn>>

Read ==
    /\ \E c \in Callers, a \in KnownIds(W) :
          /\ Free(c)
          /\ \E op \in {"getAccount", "getPositions", "getOrders", "getFills"} :
                \E status \in IF op = "getOrders" THEN {"", "open"} ELSE {""} :
                   /\ \E w \in {Invoke(W, c, op, a, status)} : Commit(w)
                   /\ twin' = Twin(LAMBDA w : Invoke(w, c, op, a, status))
    /\ UNCHANGED <<budget, fn, snapshot>>

GetQuote ==
    /\ Idle
    /\ budget.quotes > 0
    /\ \E symbol \in Symbols \cup {"MSFT"} :
          /\ \E w \in {getQuote(W, symbol)} : Commit(w)
          /\ twin' = Twin(LAMBDA w : getQuote(w, symbol))
    /\ budget' = [budget EXCEPT !.quotes = @ - 1]
    /\ UNCHANGED <<fn, snapshot>>

\* a call in flight runs to its next await
Proceed ==
    /\ \E c \in Callers :
          /\ Runnable(W, c) \/ TwinRunnable(c)
          /\ \E w \in {IF Runnable(W, c) THEN Step(W, c) ELSE W} : Commit(w)
          /\ twin' = IF TwinRunnable(c) THEN Twin(LAMBDA w : Step(w, c)) ELSE twin
    /\ UNCHANGED <<budget, fn, snapshot>>

\* the client takes what its call returned, or threw
Return ==
    /\ \E c \in Callers :
          /\ Returned(W, c)
          /\ twin # Null => Returned(twin.w, c)
          /\ Commit([W EXCEPT !.calls[c] = <<>>])
          /\ twin' = Twin(LAMBDA w : [w EXCEPT !.calls[c] = <<>>])
    /\ UNCHANGED <<budget, fn, snapshot>>

\* the wall clock moves on while nothing is in flight
Tick ==
    /\ Idle
    /\ now + budget.jump <= budget.maxNow
    /\ now' = now + budget.jump
    /\ twin' = Twin(LAMBDA w : [w EXCEPT !.now = @ + budget.jump])
    /\ UNCHANGED <<config, accounts, index, rng, calls, budget, fn, snapshot>>

Init == InitWith(Configs, 1, RawOrders) /\ twin = Null /\ fn = Null

Next == CreateAccount \/ PlaceOrder \/ Read \/ GetQuote \/ Proceed \/ Return \/ Tick

\* one client: every operation is awaited before the next is submitted
Spec == Init /\ [][Next]_vars

-----------------------------------------------------------------------------
(* Two clients whose calls overlap at the await points *)

InitOverlap == InitWith(Configs, 2, OverlapOrders) /\ twin = Null /\ fn = Null

NextOverlap == CreateAccount \/ PlaceOrder \/ Proceed \/ Return

SpecOverlap == InitOverlap /\ [][NextOverlap]_vars

-----------------------------------------------------------------------------
(* One client of an instance that may have forced liquidation enabled.  A   *)
(* call in flight is never left waiting: the event loop runs it on.         *)

InitLiquidating ==
    InitWith(LiquidatingConfigs, 1, MarginOrders) /\ twin = Null /\ fn = Null

NextLiquidating ==
    CreateAccount \/ PlaceOrder \/ Read \/ GetQuote \/ Proceed \/ Return

SpecLiquidating ==
    InitLiquidating /\ [][NextLiquidating]_vars
        /\ WF_vars(Proceed) /\ WF_vars(Return)

-----------------------------------------------------------------------------
(* One client selling short and covering, on an account large enough to     *)
(* cover at any price of the series, over the days the settlements take.    *)

ShortOrders ==
    { O("TSLA", "MARKET", "SELL_SHORT", "DAY", Num(1), Null, Null, FALSE),
      O("TSLA", "MARKET", "BUY_TO_COVER", "DAY", Num(1), Null, Null, FALSE) }

ShortCapital == 8 * MoneyScale

InitShort ==
    /\ InitBudget(Configs, [NewBudget(1, ShortOrders) EXCEPT
                               !.capitals = {ShortCapital},
                               !.maxNow = MaxNow + InstantsPerDay])
    /\ twin = Null
    /\ fn = Null

SpecShort == InitShort /\ [][Next]_vars

-----------------------------------------------------------------------------
(* One client who submits one order, of any shape *)

ValidationOrders ==
    { O("AAPL", type, side, tif, quantity, limitPrice, stopPrice, FALSE) :
        type \in {"MARKET", "limit", "STOP", "STOP_LIMIT", "TRAILING", ""},
        side \in {"BUY", "sell", "HOLD"},
        tif \in {"", "DAY", "GTC", "FOK"},
        quantity \in {Num(1), Num(0), NaN},
        limitPrice \in {Null, Px(2, 50), Num(0)},
        stopPrice \in {Null, Px(1, 50)} }

InitValidation ==
    /\ InitBudget(Configs, [NewBudget(1, ValidationOrders) EXCEPT !.maxOrders = 1])
    /\ twin = Null /\ fn = Null

NextValidation == CreateAccount \/ PlaceOrder \/ Proceed \/ Return

SpecValidation == InitValidation /\ [][NextValidation]_vars

-----------------------------------------------------------------------------
(* One client who places stop and limit orders while the quotes move *)

TriggerOrders ==
    { O("AAPL", "STOP", "BUY", "DAY", Num(1), Null, Px(2, 50), FALSE),
      O("TSLA", "STOP", "SELL_SHORT", "DAY", Num(1), Null, Px(2, 0), FALSE),
      O("AAPL", "STOP_LIMIT", "BUY", "DAY", Num(1), Px(2, 50), Px(2, 0), FALSE),
      O("AAPL", "LIMIT", "BUY", "DAY", Num(1), Px(2, 50), Null, FALSE),
      O("TSLA", "LIMIT", "SELL_SHORT", "DAY", Num(1), Px(2, 0), Null, FALSE),
      O("AAPL", "MARKET", "BUY", "DAY", Num(1), Null, Null, FALSE) }

InitTrigger ==
    /\ InitBudget(Configs, [NewBudget(1, TriggerOrders) EXCEPT
           !.quotes = 2, !.capitals = Capitals \cup {MoneyScale}])
    /\ twin = Null /\ fn = Null

NextTrigger == CreateAccount \/ PlaceOrder \/ GetQuote \/ Proceed \/ Return \/ Tick

SpecTrigger == InitTrigger /\ [][NextTrigger]_vars

-----------------------------------------------------------------------------
(* One client who sells short and comes back after a long time *)

\* the instants between two visits: 300 days
LongHold == 300 * InstantsPerDay

AccrualOrders ==
    { O("AAPL", "MARKET", "SELL_SHORT", "DAY", Num(1), Null, Null, FALSE) }

InitAccrual ==
    /\ InitBudget(Configs, [NewBudget(1, AccrualOrders) EXCEPT
           !.capitals = {7 * (MoneyScale \div 2)},
           !.maxNow = LongHold, !.jump = LongHold])
    /\ twin = Null /\ fn = Null

NextAccrual == CreateAccount \/ PlaceOrder \/ Read \/ Proceed \/ Return \/ Tick

SpecAccrual == InitAccrual /\ [][NextAccrual]_vars

-----------------------------------------------------------------------------
(* Two instances built from the same seed, config and dataset, each with    *)
(* its own provider, given the same operations.  The second one's clock is  *)
(* ahead of the first one's by a constant.                                   *)

\* what the second clock is ahead by: nothing, an instant of the same day
\* (past the market's close), a business day
Skews == {0, 1, InstantsPerDay}

TwinOrders ==
    { O("AAPL", "MARKET", "BUY", "DAY", Num(1), Null, Null, FALSE),
      O("AAPL", "MARKET", "SELL", "DAY", Num(1), Null, Null, FALSE),
      O("TSLA", "MARKET", "SELL_SHORT", "DAY", Num(1), Null, Null, FALSE),
      O("AAPL", "MARKET", "BUY", "DAY", Num(3), Null, Null, FALSE) }

InitTwin ==
    /\ InitWith(Configs, 1, TwinOrders)
    /\ fn = Null
    /\ \E skew \in Skews :
          twin = [w |-> [NewInstance(config) EXCEPT !.now = skew], skew |-> skew]

SpecTwin == InitTwin /\ [][Next]_vars

-----------------------------------------------------------------------------
(* updateSignedPosition on its own: a position, or none, a signed quantity  *)
(* and a fill price go in; the call leaves its result.                      *)

\* quantities in units of 1/QtyScale of a share: whole shares, and amounts
\* of a few millionths with a seventh decimal (none half way between two
\* millionths)
ShareQuantities == { k * QtyScale : k \in {-3, -1, 1, 2} }
SmallQuantities == {-30, -14, -10, -4, 4, 6, 10, 16, 20}
\* positions as a caller holds them: quantities of six decimals
HeldQuantities(qs) == { q \in qs \cup {0} : q % (QtyScale \div MoneyScale) = 0 }

FnPrices == { MoneyScale, 2 * MoneyScale, 2 * MoneyScale + MoneyScale \div 2 }

FnInputs ==
    LET over(qs) ==
            { [existing |-> e, deltaQty |-> d, fillPrice |-> p] :
                e \in {Null} \cup [quantity : HeldQuantities(qs), avgPrice : FnPrices],
                d \in qs, p \in FnPrices }
    IN  over(ShareQuantities) \cup over(SmallQuantities)

InitFn ==
    /\ InitWith(Configs, 0, {})
    /\ twin = Null
    /\ \E in \in FnInputs : fn = [in |-> in, out |-> Null]

CallUpdateSignedPosition ==
    /\ fn.out = Null
    /\ fn' = [fn EXCEPT !.out =
                <<updateSignedPosition(fn.in.existing, fn.in.deltaQty, fn.in.fillPrice)>>]
    /\ UNCHANGED <<config, accounts, index, rng, now, calls, budget, twin, snapshot>>

NextFn == CallUpdateSignedPosition

SpecFn == InitFn /\ [][NextFn]_vars

-----------------------------------------------------------------------------
(* One client of two accounts, on an instance that may have forced          *)
(* liquidation enabled.                                                      *)

InitPair ==
    /\ InitBudget(LiquidatingConfigs,
                  [NewBudget(1, { O("TSLA", "MARKET", "SELL_SHORT", "DAY", Num(1), Null, Null, FALSE),
                                  O("AAPL", "MARKET", "BUY", "DAY", Num(1), Null, Null, FALSE) })
                     EXCEPT !.accounts = Len(AccountIds)])
    /\ twin = Null /\ fn = Null

SpecPair == InitPair /\ [][Next]_vars

-----------------------------------------------------------------------------
(* One client who places limit orders near the quote and away from it *)

InitLimit ==
    /\ InitBudget(Configs,
          [NewBudget(1, { O("AAPL", "LIMIT", "BUY", "DAY", Num(1), Num(2001000), Null, FALSE),
                          O("AAPL", "LIMIT", "BUY", "DAY", Num(1), Px(2, 50), Null, FALSE),
                          O("AAPL", "STOP_LIMIT", "BUY", "DAY", Num(1), Num(2001000), Px(2, 0), FALSE),
                          O("TSLA", "LIMIT", "SELL_SHORT", "DAY", Num(1), Num(1997000), Null, FALSE),
                          O("TSLA", "LIMIT", "SELL_SHORT", "DAY", Num(1), Px(1, 50), Null, FALSE) })
             EXCEPT !.capitals = {ShortCapital}])
    /\ twin = Null /\ fn = Null

SpecLimit == InitLimit /\ [][NextValidation]_vars

-----------------------------------------------------------------------------
(* Two clients of an account that is short over a change of day *)

InitOvernight ==
    /\ InitBudget(Configs, [NewBudget(2, MarginOrders) EXCEPT
           !.jump = InstantsPerDay, !.maxOrders = 1])
    /\ twin = Null /\ fn = Null

SpecOvernight ==
    InitOvernight
        /\ [][CreateAccount \/ PlaceOrder \/ Read \/ Proceed \/ Return \/ Tick]_vars

-----------------------------------------------------------------------------
(* The provider on its own: getQuote and peekQuote calls on the symbols,    *)
(* counted per symbol; a call leaves what it returned.                      *)

\* getQuote calls on one symbol: more than the samples of a series
MaxAsked == 5

InitCursor ==
    /\ InitWith(Configs, 0, {})
    /\ twin = Null
    /\ fn = [asked |-> [s \in Symbols |-> 0], out |-> Null]

CallGetQuote ==
    /\ \E symbol \in Symbols \cup {"MSFT"} :
          /\ symbol \in Symbols => fn.asked[symbol] < MaxAsked
          /\ \E w \in {getQuote(W, symbol)} : Commit(w)
          /\ fn' = [ asked |-> IF symbol \in Symbols
                               THEN [fn.asked EXCEPT ![symbol] = @ + 1]
                               ELSE fn.asked,
                     out |-> [ op |-> "getQuote", symbol |-> symbol,
                               quote |-> quoteAt(index, symbol) ] ]
    /\ UNCHANGED <<budget, twin, snapshot>>

CallPeekQuote ==
    /\ \E symbol \in Symbols \cup {"MSFT"} :
          fn' = [fn EXCEPT !.out = [ op |-> "peekQuote", symbol |-> symbol,
                                     quote |-> peekQuote(index, symbol) ]]
    /\ UNCHANGED <<config, accounts, index, rng, now, calls, budget, twin, snapshot>>

SpecCursor == InitCursor /\ [][CallGetQuote \/ CallPeekQuote]_vars

-----------------------------------------------------------------------------
(* Properties of the operations, one client *)

\* frames of the placeOrder calls that have returned to their client
ReturnedOrders ==
    { calls[c][1] : c \in { k \in Callers : Returned(W, k)
                                           /\ calls[k][1].op = "placeOrder" } }

FailedCheckExits == {"validation", "market", "symbol", "maintenance", "simulation"}

InHistory(order, account) ==
    \E i \in 1..Len(account.orders) : account.orders[i] = order

C2_FilledPassedSimulation ==
    \A f \in ReturnedOrders :
        f.exit = "filled" =>
            /\ f.sim.availableCash >= 0
            /\ f.sim.equity >= f.sim.initialRequired

FilledOrders(account) ==
    SelectSeq(account.orders, LAMBDA o : o.status = ORDER_STATUS.FILLED)

\* C3: in every account the fills and the FILLED orders correspond one to
\* one, newest first: the i-th fill carries the id, symbol, side, quantity,
\* price and fees of the i-th FILLED order, so no OPEN or REJECTED order has
\* a fill.
C3_FillsMatchFilledOrders ==
    \A a \in DOMAIN accounts :
        LET fs == accounts[a].fills
            os == FilledOrders(accounts[a])
        IN  /\ Len(fs) = Len(os)
            /\ \A i \in 1..Len(fs) :
                  /\ fs[i].orderId = os[i].id
                  /\ fs[i].accountId = a /\ os[i].accountId = a
                  /\ fs[i].symbol = os[i].symbol
                  /\ fs[i].side = os[i].side
                  /\ Num(fs[i].quantity) = os[i].quantity
                  /\ Num(fs[i].price) = os[i].fillPrice
                  /\ fs[i].fees = os[i].fees
                  /\ \A j \in 1..Len(accounts[a].orders) :
                        accounts[a].orders[j].id = fs[i].orderId =>
                            accounts[a].orders[j] = os[i]

C3_Witness ==
    \E a \in DOMAIN accounts :
        /\ Len(accounts[a].fills) = 2
        /\ Len(FilledOrders(accounts[a])) = 2

C3_WitnessRejected ==
    \E a \in DOMAIN accounts :
        /\ Len(accounts[a].fills) = 1
        /\ \E j \in 1..Len(accounts[a].orders) :
              accounts[a].orders[j].status = ORDER_STATUS.REJECTED

\* what the client of POST /accounts/:id/orders is told of its order
Outcome(w, a, raw) ==
    LET ret == Top(Await(w, 1, "placeOrder", a, raw), 1).ret
    IN  IF ret.kind = "order"
        THEN [status |-> ret.order.status, reason |-> ret.order.reason]
        ELSE [status |-> "error", reason |-> ret.error]

\* C7: the outcome of an order submitted from outside does not depend on a
\* _bypassMarginCheck field in the request body: with the field true or
\* false, the same order on the same account ends in the same status with
\* the same reason.
C7_BypassFieldIgnored ==
    Idle =>
        \A a \in DOMAIN accounts, raw \in budget.orders :
            Outcome(W, a, [raw EXCEPT !._bypassMarginCheck = TRUE])
                = Outcome(W, a, [raw EXCEPT !._bypassMarginCheck = FALSE])

\* C8: no account holds a position entry of quantity 0, and every entry is
\* stored under its own symbol.
C8_NoZeroPosition ==
    \A a \in DOMAIN accounts :
        \A i \in 1..Len(accounts[a].positions) :
            /\ accounts[a].positions[i].quantity # 0
            /\ accounts[a].positions[i].key = accounts[a].positions[i].symbol

\* a trade has brought a held symbol back to quantity 0
C8_Witness ==
    \E a \in DOMAIN accounts :
        /\ Len(accounts[a].fills) = 2
        /\ accounts[a].fills[1].symbol = accounts[a].fills[2].symbol
        /\ accounts[a].positions = <<>>

\* the fills of an account in a symbol, oldest first
FillsIn(account, symbol) ==
    LET fs == SelectSeq(account.fills, LAMBDA x : x.symbol = symbol)
    IN  [i \in 1..Len(fs) |-> fs[Len(fs) + 1 - i]]

RoundTrip(account, symbol) ==
    LET fs == FillsIn(account, symbol)
    IN  /\ Len(fs) = 2
        /\ fs[1].side = "BUY" /\ fs[2].side = "SELL"
        /\ fs[1].quantity = fs[2].quantity

\* C10: on an account that held nothing in a symbol, a BUY of n followed by
\* a SELL of n of that symbol, whatever the prices, leaves no position in it.
C10_RoundTripLeavesNoPosition ==
    \A a \in DOMAIN accounts, s \in Symbols :
        RoundTrip(accounts[a], s) => ~HasPosition(accounts[a], s)

C10_Witness ==
    \E a \in DOMAIN accounts :
        /\ RoundTrip(accounts[a], "AAPL")
        /\ accounts[a].fills[1].price # accounts[a].fills[2].price
        /\ ~HasPosition(accounts[a], "AAPL")

-----------------------------------------------------------------------------
(* The short round trip *)

\* the account's only fills are a SELL_SHORT of n and then a BUY_TO_COVER
\* of n of the symbol
ShortRoundTrip(account, symbol) ==
    LET fs == FillsIn(account, symbol)
    IN  /\ Len(account.fills) = 2 /\ Len(fs) = 2
        /\ fs[1].side = "SELL_SHORT" /\ fs[2].side = "BUY_TO_COVER"
        /\ fs[1].quantity = fs[2].quantity

\* nothing of the account is left to settle
AllSettled(account) == account.pendingSettlements = <<>> /\ account.feesDue = 0

\* (shortFillPrice - coverFillPrice) * n minus the fees of the two fills
RoundTripCash(account, symbol) ==
    LET fs == FillsIn(account, symbol)
    IN  (fs[1].price - fs[2].price) * fs[1].quantity - fs[1].fees - fs[2].fees

SameDay(account, symbol) ==
    LET fs == FillsIn(account, symbol)
    IN  dayOf(fs[1].timestamp) = dayOf(fs[2].timestamp)

C11_WitnessOvernight ==
    \E a \in DOMAIN accounts :
        /\ ShortRoundTrip(accounts[a], "TSLA")
        /\ ~SameDay(accounts[a], "TSLA")
        /\ AllSettled(accounts[a])

-----------------------------------------------------------------------------
(* The account view *)

\* the clients holding an account view that getAccount returned
ViewHolders ==
    { c \in Callers : /\ Returned(W, c)
                      /\ calls[c][1].op = "getAccount"
                      /\ calls[c][1].ret.kind = "view" }

ViewOf(c) == calls[c][1].ret.view

C12_WitnessFeesDue ==
    \E c \in ViewHolders : ViewOf(c).feesDue > 0

\* signed quantity * peek mid, summed over the positions
SignedValue(account, idx) ==
    SumSeq([i \in 1..Len(account.positions) |->
              account.positions[i].quantity
                  * peekQuote(idx, account.positions[i].symbol).mid])

EquityRule(view, account, idx) ==
    /\ view.equity = view.balances.settledCash + view.balances.unsettledCash
                         + SignedValue(account, idx) - view.feesDue
    /\ view.margin.marginExcess = view.equity - view.margin.maintenanceRequired

\* getAccount hands its view to client c in this step
ViewReturns(c) ==
    /\ calls[c] # <<>> /\ calls'[c] # <<>>
    /\ Top(W, c).op = "getAccount" /\ Top(W, c).pc = "view"
    /\ calls'[c][1].pc = "done" /\ calls'[c][1].ret.kind = "view"

C13_WitnessLong ==
    \E c \in ViewHolders :
        /\ ViewOf(c).margin.longValue > 0
        /\ ViewOf(c).margin.marginExcess < ViewOf(c).equity

-----------------------------------------------------------------------------
(* Validation *)

\* the checks in the order of the rule, each with its reason
Checks(order) ==
    << [ fails |-> order.type \notin {"MARKET", "LIMIT", "STOP", "STOP_LIMIT"},
         reason |-> "unsupported order type" ],
       [ fails |-> order.side \notin {"BUY", "SELL", "SELL_SHORT", "BUY_TO_COVER"},
         reason |-> "unsupported side" ],
       [ fails |-> order.tif \notin {"DAY", "GTC", "IOC"},
         reason |-> "unsupported tif" ],
       [ fails |-> ~GtZero(order.quantity), reason |-> "invalid quantity" ],
       [ fails |-> order.type = "LIMIT" /\ ~GtZero(order.limitPrice),
         reason |-> "invalid limit price" ],
       [ fails |-> order.type = "STOP" /\ ~GtZero(order.stopPrice),
         reason |-> "invalid stop price" ],
       [ fails |-> order.type = "STOP_LIMIT"
                     /\ ~(GtZero(order.stopPrice) /\ GtZero(order.limitPrice)),
         reason |-> "invalid stop/limit prices" ],
       [ fails |-> order.type = "MARKET" /\ order.tif = "GTC",
         reason |-> "unsupported order type/tif combination" ] >>

Failing(order) == { i \in DOMAIN Checks(order) : Checks(order)[i].fails }

FirstFailing(order) == CHOOSE i \in Failing(order) : \A j \in Failing(order) : i <= j

ValidationReasons ==
    { "unsupported order type", "unsupported side", "unsupported tif",
      "invalid quantity", "invalid limit price", "invalid stop price",
      "invalid stop/limit prices", "unsupported order type/tif combination" }

\* C15: validation checks run in the fixed order type, side, tif, quantity,
\* LIMIT price, STOP price, STOP_LIMIT prices, MARKET+GTC, and the first
\* failing check alone determines the REJECTED reason; an order is rejected by
\* validation if and only if at least one of these checks fails.
C15_FirstFailingCheckDecides ==
    \A a \in DOMAIN accounts : \A i \in 1..Len(accounts[a].orders) :
        LET o == accounts[a].orders[i]
        IN  IF Failing(o) # {}
            THEN /\ o.status = ORDER_STATUS.REJECTED
                 /\ o.reason = Checks(o)[FirstFailing(o)].reason
            ELSE o.reason \notin ValidationReasons

\* an order that fails three checks, rejected for the first of them
C15_Witness ==
    \E a \in DOMAIN accounts : \E i \in 1..Len(accounts[a].orders) :
        LET o == accounts[a].orders[i]
        IN  /\ Cardinality(Failing(o)) >= 3
            /\ FirstFailing(o) = 3
            /\ o.status = ORDER_STATUS.REJECTED /\ o.reason = "unsupported tif"

\* MARKET with GTC, and nothing else wrong
C15_WitnessMarketGtc ==
    \E a \in DOMAIN accounts : \E i \in 1..Len(accounts[a].orders) :
        LET o == accounts[a].orders[i]
        IN  /\ Failing(o) = {8}
            /\ o.reason = "unsupported order type/tif combination"

\* an order no check fails, taken past validation
C15_WitnessValid ==
    \E a \in DOMAIN accounts : \E i \in 1..Len(accounts[a].orders) :
        Failing(accounts[a].orders[i]) = {} /\ accounts[a].orders[i].status = ORDER_STATUS.FILLED

-----------------------------------------------------------------------------
(* Orders for a symbol the provider cannot quote *)

\* what an order that does not trade leaves alone
Holdings(account) ==
    [ positions |-> account.positions, fills |-> account.fills,
      settledCash |-> account.settledCash, unsettledCash |-> account.unsettledCash,
      reservedCash |-> account.reservedCash, feesDue |-> account.feesDue,
      pendingSettlements |-> account.pendingSettlements ]

\* client c has a placeOrder in flight, or returned and not yet collected,
\* that passes validation and the market-hours check and names a symbol the
\* provider throws on
Unquotable(w, c) ==
    /\ w.calls[c] # <<>>
    /\ LET f == w.calls[c][1]
           order == normalizeOrderInput(f.raw)
       IN  /\ f.op = "placeOrder" /\ f.acct \in DOMAIN w.accounts
           /\ validateOrderByType(order) = NoReason
           /\ isMarketOpen(w.config, w.now)
           /\ quoteAt(w.index, order.symbol).threw

RejectedUnknownSymbol(f) ==
    f.pc = "done" =>
        /\ f.ret.kind = "order"
        /\ f.ret.order.status = ORDER_STATUS.REJECTED
        /\ f.ret.order.reason = "unknown symbol"

\* account a after a step of client c's call, if the step changes it only
\* by the refresh the call opens with: #settleDueEntries and the borrow fees
\* when the call is invoked, the borrow fees when #applyBorrowFeesIfNeeded
\* had a quote to await and is resumed, nothing otherwise
OpeningRefresh(c, a) ==
    IF calls[c] = <<>> THEN refreshLedger(W, a).accounts[a]
    ELSE IF Top(W, c).pc = "refresh" /\ Top(W, c).loc # Null
    THEN StepBorrowFees(W, c).accounts[a]
    ELSE accounts[a]

\* C16 as stated: a placeOrder that passes validation and the market-hours
\* check for a symbol the provider cannot quote returns a REJECTED order with
\* reason 'unknown symbol', without throwing, and no step of the call changes
\* a cursor, a position, a cash bucket, a pending settlement or a fill.
C16_UnknownSymbolChangesNothing ==
    [][ \A c \in Callers :
            Unquotable(W', c) =>
                LET f == calls'[c][1]
                IN  /\ RejectedUnknownSymbol(f)
                    /\ index' = index
                    /\ Holdings(accounts'[f.acct]) = Holdings(accounts[f.acct]) ]_vars

\* C16, amended: such a call returns a REJECTED order with reason 'unknown
\* symbol', without throwing; no step of it changes a cursor, a position or a
\* fill, and the cash buckets and pending settlements change only by the
\* account refresh the call opens with, as on any read made at that moment.
C16_UnknownSymbolChangesNothingButRefresh ==
    [][ \A c \in Callers :
            Unquotable(W', c) =>
                LET f == calls'[c][1]
                IN  /\ RejectedUnknownSymbol(f)
                    /\ index' = index
                    /\ Holdings(accounts'[f.acct])
                          = Holdings(OpeningRefresh(c, f.acct)) ]_vars

\* an order for an unknown symbol, returned REJECTED, on an account that
\* holds a position
C16_Witness ==
    \E c \in Callers :
        /\ Unquotable(W, c) /\ Returned(W, c)
        /\ calls[c][1].ret.order.reason = "unknown symbol"
        /\ Len(accounts[calls[c][1].acct].positions) > 0

\* such an order returned on an account whose purchase settled when the
\* call began
C16_WitnessSettled ==
    \E c \in Callers :
        /\ Unquotable(W, c) /\ Returned(W, c)
        /\ calls[c][1].ret.order.reason = "unknown symbol"
        /\ Len(accounts[calls[c][1].acct].fills) > 0
        /\ accounts[calls[c][1].acct].pendingSettlements = <<>>

-----------------------------------------------------------------------------
(* Calls on an account that does not exist *)

AccountOperations == {"placeOrder", "getAccount", "getPositions", "getOrders", "getFills"}

\* the call of client c in w names an account that was never created
OnMissingAccount(w, c) ==
    /\ w.calls[c] # <<>>
    /\ w.calls[c][1].op \in AccountOperations
    /\ w.calls[c][1].acct \notin DOMAIN w.accounts

\* C17: placeOrder, getAccount, getPositions, getOrders and getFills called
\* with an accountId that was never created fail with the account_not_found
\* error and change nothing: no account is created, no order is recorded on
\* any account, no market-data cursor advances and no RNG value is drawn.
C17_MissingAccountChangesNothing ==
    [][ \A c \in Callers :
            (OnMissingAccount(W, c) \/ OnMissingAccount(W', c)) =>
                /\ accounts' = accounts /\ index' = index /\ rng' = rng
                /\ calls'[c] # <<>> =>
                      /\ calls'[c][1].pc = "done"
                      /\ calls'[c][1].ret = ErrorRet("account_not_found") ]_vars

\* a placeOrder on a missing account has failed, on an instance that has an
\* account with an order on it
C17_Witness ==
    \E c \in Callers :
        /\ OnMissingAccount(W, c) /\ Returned(W, c)
        /\ calls[c][1].op = "placeOrder"
        /\ calls[c][1].ret = ErrorRet("account_not_found")
        /\ \E a \in DOMAIN accounts : Len(accounts[a].orders) > 0

\* each of the four reads on a missing account has failed
C17_WitnessReads ==
    \E c \in Callers :
        /\ OnMissingAccount(W, c) /\ Returned(W, c)
        /\ calls[c][1].op = "getFills"
        /\ calls[c][1].ret = ErrorRet("account_not_found")

-----------------------------------------------------------------------------
(* The maintenance guard *)

MarginDeficiency == "margin deficiency: account below maintenance"

\* the call of client c is at the maintenance guard
AtGuard(c) ==
    calls[c] # <<>> /\ Top(W, c).op = "placeOrder" /\ Top(W, c).pc = "guard"

\* equity < maintenanceRequired on the account of the call of client c
BelowMaintenance(c) ==
    LET metrics == computeMetrics(config, index, accounts[Top(W, c).acct])
    IN  metrics.equity < metrics.maintenanceRequired

\* the call of client c ends in this step, REJECTED for margin deficiency
RejectedForDeficiency(c) ==
    /\ calls[c] # <<>> /\ Top(W, c).pc # "done"
    /\ calls'[c] # <<>> /\ calls'[c][1].pc = "done"
    /\ calls'[c][1].ret.kind = "order"
    /\ calls'[c][1].ret.order.reason = MarginDeficiency

\* C18: whenever an order without the bypass flag reaches the maintenance
\* guard while the account's equity < maintenanceRequired, it is REJECTED with
\* reason 'margin deficiency: account below maintenance' and no trade is
\* applied, whatever the order's side or size; an order with equity >=
\* maintenanceRequired is never rejected with that reason.
C18_MaintenanceGuard ==
    [][ \A c \in Callers :
            /\ ( /\ AtGuard(c) /\ calls'[c] # calls[c]
                 /\ ~Top(W, c).loc.bypassMarginCheck
                 /\ BelowMaintenance(c) ) =>
                    /\ RejectedForDeficiency(c)
                    /\ calls'[c][1].ret.order.status = ORDER_STATUS.REJECTED
                    /\ index' = index
                    /\ Holdings(accounts'[Top(W, c).acct])
                          = Holdings(accounts[Top(W, c).acct])
            /\ RejectedForDeficiency(c) =>
                    AtGuard(c) /\ BelowMaintenance(c) ]_vars

\* a purchase turned away at the guard: the account is short and the price
\* has risen
C18_Witness ==
    \E c \in Callers :
        /\ Returned(W, c) /\ calls[c][1].exit = "maintenance"
        /\ calls[c][1].ret.order.reason = MarginDeficiency
        /\ calls[c][1].ret.order.side = "BUY"
        /\ Len(accounts[calls[c][1].acct].fills) = 1

\* an order of another side and size turned away
C18_WitnessOtherSide ==
    \E c \in Callers :
        /\ Returned(W, c) /\ calls[c][1].exit = "maintenance"
        /\ calls[c][1].ret.order.side = "SELL_SHORT"

\* an order that carries the bypass flag passes the guard on an account
\* below maintenance
C18_WitnessBypass ==
    \E c \in Callers :
        /\ calls[c] # <<>> /\ Top(W, c).pc = "sleep"
        /\ Top(W, c).loc.bypassMarginCheck
        /\ BelowMaintenance(c)

-----------------------------------------------------------------------------
(* Stop orders *)

\* the order of the placeOrder call client c has in flight in w
OrderOf(w, c) == normalizeOrderInput(w.calls[c][1].raw)

IsStop(order) == order.type \in {"STOP", "STOP_LIMIT"}

BuySide(order) == order.side \in {"BUY", "BUY_TO_COVER"}

\* mid has passed the stop
Passed(order, mid) ==
    IF BuySide(order) THEN mid >= order.stopPrice[1] ELSE mid <= order.stopPrice[1]

\* the quote of a symbol that its cursor in idx has just moved past
LastQuote(idx, symbol) ==
    LET n == Len(symbols[symbol].series)
    IN  quoteAt([idx EXCEPT ![symbol] = (idx[symbol] + n - 1) % n], symbol)

\* the call of client c takes the step that starts at pc
StepsFrom(c, pc) ==
    /\ calls[c] # <<>> /\ calls[c][1].op = "placeOrder" /\ calls[c][1].pc = pc
    /\ calls'[c] # <<>> /\ calls'[c] # calls[c]

\* the call of client c ends in this step
Ends(c) ==
    /\ calls[c] # <<>> /\ calls[c][1].pc # "done"
    /\ calls'[c] # <<>> /\ calls'[c][1].pc = "done"

\* the call of client c in w gets as far as the trigger evaluation
ReachesTrigger(w, c) ==
    LET f == w.calls[c][1]
        order == OrderOf(w, c)
        metrics(idx) == computeMetrics(w.config, idx, w.accounts[f.acct])
    IN  CASE f.pc \in {"refresh", "body"} /\ f.after # "return" ->
               /\ validateOrderByType(order) = NoReason
               /\ isMarketOpen(w.config, w.now)
               /\ ~quoteAt(w.index, order.symbol).threw
               /\ ~hasMaintenanceDeficiency(metrics(advance(w.index, order.symbol)))
          [] f.pc = "guard" -> ~hasMaintenanceDeficiency(metrics(w.index))
          [] f.pc = "done" ->
               f.exit \notin {"validation", "market", "symbol", "maintenance"}
          [] OTHER -> TRUE

\* the first advancing quote of the call of client c in w
FirstQuote(w, c) ==
    LET f == w.calls[c][1]
    IN  IF f.pc = "guard" THEN f.loc.quote
        ELSE quoteAt(w.index, OrderOf(w, c).symbol)

\* client c has a stop order in flight in w, or returned and not yet
\* collected, that reaches the trigger evaluation with mid short of the stop
Untriggered(w, c) ==
    /\ w.calls[c] # <<>>
    /\ w.calls[c][1].op = "placeOrder" /\ w.calls[c][1].acct \in DOMAIN w.accounts
    /\ IsStop(OrderOf(w, c))
    /\ ReachesTrigger(w, c)
    /\ LET f == w.calls[c][1]
       IN  \/ f.pc = "done" /\ f.exit = "pending_trigger"
           \/ f.pc \in {"refresh", "body", "guard"} /\ f.after # "return"
                /\ ~Passed(OrderOf(w, c), FirstQuote(w, c).mid)

\* the trigger rule, at the step that evaluates it
TriggerRule(c) ==
    ( /\ StepsFrom(c, "guard") /\ IsStop(OrderOf(W, c)) /\ ReachesTrigger(W, c) ) =>
        LET order == OrderOf(W, c)
            f == calls'[c][1]
            a == f.acct
        IN  /\ calls[c][1].loc.quote = LastQuote(index, order.symbol)
            /\ IF Passed(order, LastQuote(index, order.symbol).mid)
               THEN /\ f.pc = "sleep"
                    /\ f.loc.triggerState = IF order.type = "STOP"
                                             THEN "TRIGGERED_TO_MARKET"
                                             ELSE "TRIGGERED_TO_LIMIT"
               ELSE /\ f.pc = "done"
                    /\ f.ret.kind = "order"
                    /\ f.ret.order.status = ORDER_STATUS.OPEN
                    /\ accounts'[a].orders = <<f.ret.order>> \o accounts[a].orders

\* a triggered STOP executes as MARKET, a triggered STOP_LIMIT as LIMIT
ExecutesAs(c) ==
    ( /\ StepsFrom(c, "fill") /\ IsStop(OrderOf(W, c)) ) =>
        LET order == OrderOf(W, c)
            quote == calls[c][1].loc.executionQuote
            unfillable == calls'[c][1].pc = "done" /\ calls'[c][1].exit = "unfillable"
        IN  IF order.type = "STOP" THEN ~unfillable
            ELSE unfillable <=>
                   ~(IF BuySide(order) THEN quote.ask <= order.limitPrice[1]
                     ELSE quote.bid >= order.limitPrice[1])

EffectiveTypes ==
    \A a \in DOMAIN accounts : \A i \in 1..Len(accounts[a].orders) :
        LET o == accounts[a].orders[i]
        IN  (IsStop(o) /\ o.status = ORDER_STATUS.FILLED) =>
                o.effectiveType = IF o.type = "STOP" THEN "MARKET" ELSE "LIMIT"

\* the account of client c's call holds an open order like the one of the call
RestingTwin(w, c) ==
    LET order == OrderOf(w, c)
        os == w.accounts[w.calls[c][1].acct].orders
    IN  \E i \in 1..Len(os) :
            /\ os[i].status = ORDER_STATUS.OPEN
            /\ os[i].symbol = order.symbol /\ os[i].type = order.type
            /\ os[i].side = order.side /\ os[i].quantity = order.quantity
            /\ os[i].stopPrice = order.stopPrice

\* client c has placed again a STOP that rests open on the account, and
\* mid has passed the stop
LaterStop(w, c) ==
    /\ w.calls[c] # <<>>
    /\ w.calls[c][1].op = "placeOrder" /\ w.calls[c][1].acct \in DOMAIN w.accounts
    /\ OrderOf(w, c).type = "STOP"
    /\ RestingTwin(w, c)
    /\ LET f == w.calls[c][1]
       IN  \/ f.pc \in {"refresh", "body", "guard"} /\ f.after # "return"
                /\ Passed(OrderOf(w, c), FirstQuote(w, c).mid)
           \/ f.pc \in {"sleep", "fill", "simulated"}
           \/ f.pc = "refresh" /\ f.after = "return"

\* C19 as stated: a STOP or STOP_LIMIT order is evaluated against the mid of
\* the first advancing quote of its own placeOrder call; a buy-side order
\* triggers iff mid >= stopPrice and a sell-side order iff mid <= stopPrice;
\* an untriggered order is recorded as OPEN with no fill and no change to
\* positions or cash in any step of its call; a triggered STOP executes as
\* MARKET and a triggered STOP_LIMIT as LIMIT; a later placeOrder of the same
\* STOP made when mid has passed the stop is FILLED.
C19_TriggerRule ==
    [][ \A c \in Callers :
            /\ TriggerRule(c)
            /\ ExecutesAs(c) /\ EffectiveTypes'
            /\ Untriggered(W', c) =>
                  Holdings(accounts'[calls'[c][1].acct])
                      = Holdings(accounts[calls'[c][1].acct])
            /\ (LaterStop(W, c) /\ Ends(c)) =>
                  /\ calls'[c][1].ret.kind = "order"
                  /\ calls'[c][1].ret.order.status = ORDER_STATUS.FILLED ]_vars

\* C19, amended: the trigger rule as stated; an untriggered order is recorded
\* as OPEN with no fill and no change to positions, and cash changes in its
\* call only by the account refresh the call opens with; a triggered STOP
\* executes as MARKET and a triggered STOP_LIMIT as LIMIT; a later placeOrder
\* of the same STOP made when mid has passed the stop triggers and is FILLED
\* unless the market-hours check, the maintenance guard or the post-trade
\* simulation rejects it.
C19_TriggerRuleAfterRefresh ==
    [][ \A c \in Callers :
            /\ TriggerRule(c)
            /\ ExecutesAs(c) /\ EffectiveTypes'
            /\ (Untriggered(W, c) /\ calls'[c] # <<>>) => Untriggered(W', c)
            /\ Untriggered(W', c) =>
                  LET a == calls'[c][1].acct
                  IN  Holdings(accounts'[a]) = Holdings(OpeningRefresh(c, a))
            /\ (LaterStop(W, c) /\ Ends(c)) =>
                  /\ calls'[c][1].ret.kind = "order"
                  /\ \/ /\ calls'[c][1].ret.order.status = ORDER_STATUS.FILLED
                        /\ calls'[c][1].ret.order.effectiveType = "MARKET"
                     \/ /\ calls'[c][1].ret.order.status = ORDER_STATUS.REJECTED
                        /\ calls'[c][1].exit \in {"market", "maintenance", "simulation"} ]_vars

\* a STOP that rests open and the same STOP, placed again once mid has
\* passed the stop, FILLED
C19_Witness ==
    \E a \in DOMAIN accounts :
        /\ Len(accounts[a].orders) = 2
        /\ accounts[a].orders[2].type = "STOP"
        /\ accounts[a].orders[2].status = ORDER_STATUS.OPEN
        /\ accounts[a].orders[1].type = "STOP"
        /\ accounts[a].orders[1].stopPrice = accounts[a].orders[2].stopPrice
        /\ accounts[a].orders[1].status = ORDER_STATUS.FILLED
        /\ accounts[a].orders[1].effectiveType = "MARKET"
        /\ Len(accounts[a].fills) = 1

\* a sell-side stop left open, and a sell-side stop triggered at mid = stop
C19_WitnessSellSide ==
    \E a \in DOMAIN accounts : \E i, j \in 1..Len(accounts[a].orders) :
        /\ accounts[a].orders[i].type = "STOP" /\ accounts[a].orders[i].side = "SELL_SHORT"
        /\ accounts[a].orders[i].status = ORDER_STATUS.OPEN
        /\ accounts[a].orders[j].type = "STOP" /\ accounts[a].orders[j].side = "SELL_SHORT"
        /\ accounts[a].orders[j].status = ORDER_STATUS.FILLED

\* a STOP_LIMIT triggered and filled
C19_WitnessStopLimit ==
    \E a \in DOMAIN accounts : \E i \in 1..Len(accounts[a].orders) :
        /\ accounts[a].orders[i].type = "STOP_LIMIT"
        /\ accounts[a].orders[i].status = ORDER_STATUS.FILLED
        /\ accounts[a].orders[i].effectiveType = "LIMIT"

\* an untriggered stop returned by a call that began by settling a purchase
C19_WitnessSettled ==
    \E c \in Callers :
        /\ Untriggered(W, c) /\ Returned(W, c)
        /\ Len(accounts[calls[c][1].acct].fills) = 1
        /\ accounts[calls[c][1].acct].pendingSettlements = <<>>

\* the same STOP placed again with mid past the stop, and turned away
C19_WitnessLaterRejected ==
    \E c \in Callers :
        /\ Returned(W, c) /\ calls[c][1].op = "placeOrder"
        /\ calls[c][1].acct \in DOMAIN accounts
        /\ OrderOf(W, c).type = "STOP" /\ RestingTwin(W, c)
        /\ calls[c][1].exit = "simulation"

-----------------------------------------------------------------------------
(* The fill condition *)

\* the type an order executes as once it is past the trigger evaluation
EffectiveType(order) ==
    IF order.type = "STOP" THEN "MARKET"
    ELSE IF order.type = "STOP_LIMIT" THEN "LIMIT"
    ELSE order.type

LimitPasses(order, quote) ==
    IF BuySide(order) THEN quote.ask <= order.limitPrice[1]
    ELSE quote.bid >= order.limitPrice[1]

Passes(order, quote) == EffectiveType(order) = "MARKET" \/ LimitPasses(order, quote)

\* the execution quote of the call of client c in w: the one its second
\* getQuote returns
ExecutionQuote(w, c) ==
    LET f == w.calls[c][1]
        symbol == OrderOf(w, c).symbol
    IN  IF f.pc = "fill" THEN f.loc.executionQuote
        ELSE IF f.pc \in {"guard", "sleep"} THEN quoteAt(w.index, symbol)
        ELSE quoteAt(advance(w.index, symbol), symbol)

\* client c has an order in flight in w, or returned and not yet collected,
\* that reaches the fill check and does not pass it
Unfillable(w, c) ==
    /\ w.calls[c] # <<>>
    /\ w.calls[c][1].op = "placeOrder" /\ w.calls[c][1].acct \in DOMAIN w.accounts
    /\ LET f == w.calls[c][1]
           order == OrderOf(w, c)
       IN  \/ f.pc = "done" /\ f.exit = "unfillable"
           \/ /\ f.pc \in {"refresh", "body", "guard", "sleep", "fill"}
              /\ f.after # "return"
              /\ ReachesTrigger(w, c)
              /\ (IsStop(order) /\ f.pc \in {"refresh", "body", "guard"}) =>
                     Passed(order, FirstQuote(w, c).mid)
              /\ ~Passes(order, ExecutionQuote(w, c))

\* the fill condition, at the step that evaluates it
FillCondition(c) ==
    StepsFrom(c, "fill") =>
        LET order == OrderOf(W, c)
            l == calls[c][1].loc
            f == calls'[c][1]
            a == f.acct
        IN  /\ l.executionQuote = LastQuote(index, order.symbol)
            /\ l.triggerState \in {"TRIGGERED_TO_MARKET", "TRIGGERED_TO_LIMIT"}
                  <=> IsStop(order)
            /\ IF Passes(order, l.executionQuote)
               THEN ~(f.pc = "done" /\ f.exit = "unfillable")
               ELSE /\ f.pc = "done" /\ f.exit = "unfillable"
                    /\ f.ret.kind = "order"
                    /\ f.ret.order.status = ORDER_STATUS.OPEN
                    /\ accounts'[a].orders = <<f.ret.order>> \o accounts[a].orders

\* C20 as stated: the fill condition is evaluated on the second (execution)
\* quote; an order whose effective type is MARKET always passes; an order
\* whose effective type is LIMIT (a LIMIT, or a triggered STOP_LIMIT) passes
\* iff ask <= limitPrice for buy-side orders and bid >= limitPrice for
\* sell-side orders; an order that does not pass is recorded as OPEN with no
\* fill and no change to positions or cash in any step of its call.
C20_FillCondition ==
    [][ \A c \in Callers :
            /\ FillCondition(c)
            /\ Unfillable(W', c) =>
                  Holdings(accounts'[calls'[c][1].acct])
                      = Holdings(accounts[calls'[c][1].acct]) ]_vars

\* C20, amended: the fill condition as stated; an order that does not pass
\* is recorded as OPEN with no fill and no change to positions, and cash
\* changes in its call only by the account refresh the call opens with.
C20_FillConditionAfterRefresh ==
    [][ \A c \in Callers :
            /\ FillCondition(c)
            /\ (Unfillable(W, c) /\ calls'[c] # <<>>) => Unfillable(W', c)
            /\ Unfillable(W', c) =>
                  LET a == calls'[c][1].acct
                  IN  Holdings(accounts'[a]) = Holdings(OpeningRefresh(c, a)) ]_vars

\* a buy LIMIT left open because ask was above its limit, and the same
\* LIMIT, placed again, filled
C20_Witness ==
    \E a \in DOMAIN accounts :
        /\ Len(accounts[a].orders) = 2
        /\ accounts[a].orders[2].type = "LIMIT" /\ accounts[a].orders[2].side = "BUY"
        /\ accounts[a].orders[2].status = ORDER_STATUS.OPEN
        /\ accounts[a].orders[1].type = "LIMIT" /\ accounts[a].orders[1].side = "BUY"
        /\ accounts[a].orders[1].status = ORDER_STATUS.FILLED
        /\ Len(accounts[a].fills) = 1 /\ Len(accounts[a].positions) = 1

\* a sell-side LIMIT left open because bid is below its limit
C20_WitnessSellSide ==
    \E c \in Callers :
        /\ Unfillable(W, c) /\ Returned(W, c)
        /\ OrderOf(W, c).type = "LIMIT" /\ OrderOf(W, c).side = "SELL_SHORT"

\* a sell-side LIMIT filled
C20_WitnessSellSideFilled ==
    \E a \in DOMAIN accounts : \E i \in 1..Len(accounts[a].orders) :
        /\ accounts[a].orders[i].type = "LIMIT" /\ accounts[a].orders[i].side = "SELL_SHORT"
        /\ accounts[a].orders[i].status = ORDER_STATUS.FILLED

\* a triggered STOP_LIMIT left open at its limit
C20_WitnessStopLimit ==
    \E c \in Callers :
        /\ Unfillable(W, c) /\ Returned(W, c)
        /\ OrderOf(W, c).type = "STOP_LIMIT"

\* an order left open by a call that began by settling a purchase
C20_WitnessSettled ==
    \E c \in Callers :
        /\ Unfillable(W, c) /\ Returned(W, c)
        /\ Len(accounts[calls[c][1].acct].fills) = 1
        /\ accounts[calls[c][1].acct].pendingSettlements = <<>>

-----------------------------------------------------------------------------
(* Settlement of a purchase *)

\* the account's only fill is a BUY
BoughtOnce(account) ==
    Len(account.fills) = 1 /\ account.fills[1].side = "BUY"

\* what the accounts of the specification are opened with, which is what
\* settledCash and availableCash are before the first trade
OpeningCapital == CHOOSE cap \in budget.capitals : TRUE

\* the settlement entry of a fill is due
SettlementDue(fill) ==
    nextBusinessDay(fill.timestamp, config.settlementDaysEquities) <= now

\* C21: getAccount on an account whose only fill is a BUY of notional N with
\* fees f shows, while the settlement entry is not due, reservedCash > 0 and
\* availableCash below the opening value; once the entry is due it shows
\* reservedCash = 0 and settledCash = opening settledCash - N - f, and the
\* account has no pending settlement.
C21_BuySettlement ==
    \A c \in ViewHolders :
        LET account == accounts[calls[c][1].acct]
            balances == ViewOf(c).balances
            fill == account.fills[1]
        IN  BoughtOnce(account) =>
                IF SettlementDue(fill)
                THEN /\ balances.reservedCash = 0
                     /\ account.pendingSettlements = <<>>
                     /\ balances.settledCash
                            = OpeningCapital - fill.notional - fill.fees
                ELSE /\ balances.reservedCash > 0
                     /\ balances.availableCash < OpeningCapital

\* a view taken after the purchase has settled
C21_Witness ==
    \E c \in ViewHolders :
        LET account == accounts[calls[c][1].acct]
        IN  /\ BoughtOnce(account) /\ SettlementDue(account.fills[1])
            /\ account.fills[1].notional > 0 /\ account.fills[1].fees > 0
            /\ ViewOf(c).balances.reservedCash = 0
            /\ ViewOf(c).balances.settledCash < OpeningCapital

\* a view taken right after the fill
C21_WitnessReserved ==
    \E c \in ViewHolders :
        LET account == accounts[calls[c][1].acct]
        IN  /\ BoughtOnce(account) /\ ~SettlementDue(account.fills[1])
            /\ account.fills[1].timestamp = now
            /\ ViewOf(c).balances.reservedCash = account.fills[1].notional

-----------------------------------------------------------------------------
(* The order and fill histories *)

\* a history after a step: what it held, with new records in front of it
Extends(new, old) ==
    /\ Len(new) >= Len(old)
    /\ SubSeq(new, Len(new) - Len(old) + 1, Len(new)) = old

\* C22: the order and fill histories are append-only: no step of any
\* operation removes a record of an account's orders or fills, modifies one
\* or changes the relative order of the records; so an order recorded as OPEN
\* stays OPEN, whatever its tif.
C22_HistoriesAppendOnly ==
    [][ \A a \in DOMAIN accounts :
            /\ a \in DOMAIN accounts'
            /\ Extends(accounts'[a].orders, accounts[a].orders)
            /\ Extends(accounts'[a].fills, accounts[a].fills) ]_vars

\* an order of tif DAY left OPEN the day before, under an order filled today
C22_Witness ==
    \E a \in DOMAIN accounts :
        /\ Len(accounts[a].orders) = 2
        /\ accounts[a].orders[2].status = ORDER_STATUS.OPEN
        /\ accounts[a].orders[2].tif = "DAY"
        /\ dayOf(accounts[a].orders[2].createdAt) < dayOf(now)
        /\ accounts[a].orders[1].status = ORDER_STATUS.FILLED
        /\ accounts[a].orders[1].createdAt = now

\* an OPEN order whose stop the quotes have since reached, after a read
C22_WitnessTriggerPassed ==
    \E c \in Callers, a \in DOMAIN accounts :
        /\ Returned(W, c) /\ calls[c][1].op = "getOrders" /\ calls[c][1].acct = a
        /\ Len(accounts[a].orders) >= 1
        /\ LET o == accounts[a].orders[Len(accounts[a].orders)]
           IN  /\ o.status = ORDER_STATUS.OPEN /\ o.type = "STOP"
               /\ peekQuote(index, o.symbol).mid >= o.stopPrice[1]

\* the clients whose placeOrder on account a has recorded its order: those
\* whose call has returned, and those whose call has yet to return
ReturnedTo(a) ==
    { c \in Callers : /\ Returned(W, c)
                      /\ calls[c][1].op = "placeOrder" /\ calls[c][1].acct = a
                      /\ calls[c][1].ret.kind = "order" }

YetToReturn(a) ==
    { c \in Callers : /\ calls[c] # <<>> /\ ~Returned(W, c)
                      /\ calls[c][1].op = "placeOrder" /\ calls[c][1].acct = a
                      /\ calls[c][1].ret # Null }

-----------------------------------------------------------------------------
(* The replay cursor *)

\* the quote for sample i (0-based) of a symbol's series
QuoteOfSample(symbol, i) ==
    quoteAt([s \in Symbols |-> IF s = symbol THEN i ELSE 0], symbol)

\* sample (k - 1) mod len(s) of the series
SampleOfCall(symbol, k) == (k - 1) % Len(symbols[symbol].series)

\* C24: for a configured symbol with series s the k-th getQuote call returns
\* the quote for s[(k-1) mod len(s)], whatever peekQuote calls and calls on
\* other symbols come in between; peekQuote moves no cursor and returns the
\* quote the next getQuote on the symbol returns.
C24_ReplayCursor ==
    /\ \A s \in Symbols : index[s] = SampleOfCall(s, fn.asked[s] + 1)
    /\ fn.out # Null /\ fn.out.symbol \in Symbols =>
          LET s == fn.out.symbol
              k == IF fn.out.op = "getQuote" THEN fn.asked[s] ELSE fn.asked[s] + 1
          IN  /\ fn.out.quote = QuoteOfSample(s, SampleOfCall(s, k))
              /\ fn.out.quote.mid
                    = symbols[s].series[SampleOfCall(s, k) + 1] * MoneyScale

\* the fifth getQuote on AAPL, a series of four samples, with calls on TSLA
\* in between
C24_Witness ==
    /\ fn.out # Null /\ fn.out.op = "getQuote" /\ fn.out.symbol = "AAPL"
    /\ fn.asked["AAPL"] = Len(symbols["AAPL"].series) + 1
    /\ fn.asked["TSLA"] = 3
    /\ fn.out.quote = QuoteOfSample("AAPL", 0)

\* a peekQuote after three getQuote calls: the fourth sample
C24_WitnessPeek ==
    /\ fn.out # Null /\ fn.out.op = "peekQuote" /\ fn.out.symbol = "TSLA"
    /\ fn.asked["TSLA"] = 3
    /\ fn.out.quote.mid = 5 * MoneyScale

-----------------------------------------------------------------------------
(* The responses of POST /accounts/:id/orders *)

\* C25: POST /accounts/:id/orders responds 400 exactly when the order that
\* results is REJECTED, and the body then carries its reason; 201 when the
\* order is FILLED or OPEN; 404 exactly when the account does not exist.
C25_OrderResponse ==
    \A f \in ReturnedOrders :
        LET status == postOrderStatus(f.ret)
            rejected == f.ret.kind = "order"
                            /\ f.ret.order.status = ORDER_STATUS.REJECTED
            accepted == f.ret.kind = "order"
                            /\ f.ret.order.status
                                  \in {ORDER_STATUS.FILLED, ORDER_STATUS.OPEN}
        IN  /\ status = 400 <=> rejected
            /\ rejected => /\ f.ret.order.reason # NoReason
                           /\ f.exit \in FailedCheckExits
            /\ accepted => status = 201
            /\ status = 201 => accepted /\ f.exit \in {"filled", "pending_trigger", "unfillable"}
            /\ status = 404 <=> f.acct \notin DOMAIN accounts
            /\ f.acct \in DOMAIN accounts => f.ret.kind = "order"

\* an order rejected by the simulation, answered 400
C25_Witness ==
    \E f \in ReturnedOrders :
        /\ postOrderStatus(f.ret) = 400
        /\ f.exit = "simulation"
        /\ f.ret.order.reason = "insufficient available buying power / margin"

\* an order left OPEN, answered 201
C25_WitnessOpen ==
    \E f \in ReturnedOrders :
        /\ postOrderStatus(f.ret) = 201
        /\ f.ret.order.status = ORDER_STATUS.OPEN

\* an order for an account that does not exist, answered 404
C25_WitnessNotFound ==
    \E f \in ReturnedOrders :
        /\ postOrderStatus(f.ret) = 404
        /\ DOMAIN accounts # {}

-----------------------------------------------------------------------------
(* Covering without a short position *)

IsShort(account, symbol) ==
    HasPosition(account, symbol) /\ PositionOf(account, symbol).quantity < 0

\* the step records a BUY_TO_COVER order on an account that is not short
\* the symbol
CoversNothing(a) ==
    /\ Len(accounts'[a].orders) = Len(accounts[a].orders) + 1
    /\ accounts'[a].orders[1].side = "BUY_TO_COVER"
    /\ ~IsShort(accounts[a], accounts'[a].orders[1].symbol)

\* C26: a BUY_TO_COVER for a symbol in which the account holds no short
\* position is recorded as a REJECTED order with a reason; it does not fill
\* and it opens no long position.
C26_CoverNeedsShort ==
    [][ \A a \in DOMAIN accounts :
            CoversNothing(a) =>
                /\ accounts'[a].orders[1].status = ORDER_STATUS.REJECTED
                /\ accounts'[a].orders[1].reason # NoReason
                /\ accounts'[a].fills = accounts[a].fills
                /\ accounts'[a].positions = accounts[a].positions ]_vars

-----------------------------------------------------------------------------
(* The trade as one step *)

\* the quantity the fills of an account add up to in a symbol
FilledQuantity(account, symbol) ==
    SumSeq([i \in 1..Len(account.fills) |->
              IF account.fills[i].symbol # symbol THEN 0
              ELSE IF sideIsBuy(account.fills[i].side) THEN account.fills[i].quantity
              ELSE -account.fills[i].quantity])

HeldQuantity(account, symbol) ==
    IF HasPosition(account, symbol) THEN PositionOf(account, symbol).quantity ELSE 0

\* the pending settlement a fill inserts
EntryOf(fill) ==
    [ amount |-> fill.notional,
      direction |-> IF sideIsBuy(fill.side) THEN "DEBIT" ELSE "CREDIT",
      settleAt |-> nextBusinessDay(fill.timestamp, config.settlementDaysEquities),
      symbol |-> fill.symbol ]

PendingAmount(account, direction) ==
    SumSeq([i \in 1..Len(account.pendingSettlements) |->
              IF account.pendingSettlements[i].direction = direction
              THEN account.pendingSettlements[i].amount ELSE 0])

\* every effect of every fill of the account is there: the FILLED order, the
\* position, the pending settlement (unless it was due and has settled) and
\* the cash it holds back
TradesWhole(account) ==
    LET fills == account.fills
        pending == account.pendingSettlements
        filled == FilledOrders(account)
    IN  /\ Len(filled) = Len(fills)
        /\ \A i \in 1..Len(fills) : filled[i].id = fills[i].orderId
        /\ \A s \in Symbols : HeldQuantity(account, s) = FilledQuantity(account, s)
        /\ Len(pending) <= Len(fills)
        /\ \A i \in 1..Len(fills) :
              IF i <= Len(pending)
              THEN pending[Len(pending) + 1 - i] = EntryOf(fills[i])
              ELSE EntryOf(fills[i]).settleAt <= now
        /\ account.reservedCash = PendingAmount(account, "DEBIT")
        /\ account.unsettledCash = PendingAmount(account, "CREDIT")

\* C27: the trade is applied as one step: in every state, so at every point
\* where an operation is suspended, each account shows all the effects of
\* each of its fills or none of them; the fills, the FILLED orders, the
\* position changes, the pending settlements inserted and the cash held
\* back for them correspond one to one.
C27_TradeAtomic ==
    \A a \in DOMAIN accounts : TradesWhole(accounts[a])

\* a call suspended between its awaits while the account shows the fill of
\* another call
C27_Witness ==
    \E c \in Callers, a \in DOMAIN accounts :
        /\ calls[c] # <<>> /\ calls[c][1].acct = a
        /\ calls[c][1].pc \in {"guard", "sleep", "fill", "simulated"}
        /\ Len(accounts[a].fills) = 1
        /\ Len(accounts[a].pendingSettlements) = 1
        /\ Len(accounts[a].positions) = 1

\* a fill recorded while another call waits for its simulation, which was
\* run on a copy taken before the fill
C27_WitnessBothFill ==
    \E a \in DOMAIN accounts :
        /\ Len(accounts[a].fills) = 2
        /\ Len(accounts[a].pendingSettlements) = 2
        /\ \E c \in Callers : calls[c] # <<>> /\ ~Returned(W, c)

-----------------------------------------------------------------------------
(* Accounts are independent *)

\* the account the step's operation is on: a step starts or runs on one call
SteppedOn ==
    { Top(W', c).acct : c \in { k \in Callers : calls'[k] # calls[k]
                                                  /\ calls'[k] # <<>> } }

\* C28: an operation on an account (placeOrder, a read, the refresh and the
\* forced liquidation it triggers) leaves every other account as it was:
\* positions, settledCash, unsettledCash, reservedCash, feesDue, pending
\* settlements, orders and fills.
C28_OtherAccountsUnchanged ==
    [][ \A a \in SteppedOn, b \in DOMAIN accounts :
            b # a => accounts'[b] = accounts[b] ]_vars

\* two accounts with a position each, the orders of both filled while the
\* calls overlapped
C28_Witness ==
    /\ \A a \in DOMAIN accounts : Len(accounts[a].positions) = 1
    /\ Cardinality(DOMAIN accounts) = 2
    /\ \E c \in Callers : calls[c] # <<>> /\ ~Returned(W, c)

\* a forced liquidation under way on one account while the other holds a
\* position
C28_WitnessLiquidating ==
    \E c \in Callers, b \in DOMAIN accounts :
        /\ calls[c] # <<>> /\ Depth(W, c) > 1
        /\ b # calls[c][1].acct
        /\ Len(accounts[b].positions) = 1

\* a call on one account on the day an entry of the other account is due
C28_WitnessDue ==
    \E c \in Callers, b \in DOMAIN accounts :
        /\ Returned(W, c) /\ calls[c][1].acct \in DOMAIN accounts
        /\ b # calls[c][1].acct
        /\ accounts[b].pendingSettlements # <<>>
        /\ accounts[b].pendingSettlements[1].settleAt <= now

-----------------------------------------------------------------------------
(* Forced liquidation *)

\* the frames of forced placeOrder calls on the stack of a call: the ones
\* above the operation the client invoked
ForcedFrames(c) == IF calls[c] = <<>> THEN 0 ELSE Depth(W, c) - 1

\* C29: forced liquidation nests at most one level: above the operation
\* whose refresh found the deficiency there is at most one internal
\* placeOrder, and the placeOrder that handles the internal order starts no
\* forced liquidation of its own, so the recursion between refresh and
\* placeOrder is bounded.
C29_SingleLevel ==
    \A c \in Callers :
        /\ ForcedFrames(c) <= 1
        /\ calls[c] # <<>> => Top(W, c).pc # "overflow"

\* the refresh of client c's call places an order in this step
PlacesForced(c) ==
    /\ calls[c] # <<>>
    /\ Len(calls'[c]) = Len(calls[c]) + 1

AbsValue(idx, position) ==
    Abs(position.quantity * peekQuote(idx, position.symbol).mid)

\* the order closes a position of the account that no other position
\* exceeds in |quantity * mid|
ClosesLargest(order, account, idx) ==
    /\ HasPosition(account, order.symbol)
    /\ LET target == PositionOf(account, order.symbol)
       IN  /\ \A i \in 1..Len(account.positions) :
                 AbsValue(idx, account.positions[i]) <= AbsValue(idx, target)
           /\ order.side = IF target.quantity > 0 THEN "SELL" ELSE "BUY_TO_COVER"
           /\ order.quantity = Num(Abs(target.quantity))
           /\ order.type = "MARKET" /\ order.tif = "IOC"
           /\ order._bypassMarginCheck = TRUE
           /\ HeldQuantity(account, order.symbol)
                 + deltaQtyOf(sideIsBuy(order.side), order.quantity[1]) = 0

\* C30: a refresh places an order only with forceLiquidationEnabled and
\* equity < maintenanceRequired, and the order is then a MARKET IOC order
\* with the bypass flag for a position whose |quantity * mid| is maximal
\* among the account's positions, SELL for a long and BUY_TO_COVER for a
\* short, for |position quantity|: filled, it takes the position to 0.
C30_ForcedTarget ==
    [][ \A c \in Callers :
            PlacesForced(c) =>
                LET a == Top(W, c).acct
                    metrics == computeMetrics(config, index, accounts[a])
                IN  /\ config.forceLiquidationEnabled
                    /\ metrics.equity < metrics.maintenanceRequired
                    /\ Top(W', c).op = "placeOrder" /\ Top(W', c).acct = a
                    /\ ClosesLargest(Top(W', c).raw, accounts[a], index) ]_vars

\* a forced order for the larger of two positions
C30_Witness ==
    \E c \in Callers :
        /\ ForcedFrames(c) >= 1
        /\ Len(accounts[calls[c][1].acct].positions) = 2
        /\ \E i \in 1..2 :
              LET p == accounts[calls[c][1].acct].positions[i]
              IN  /\ p.symbol # calls[c][2].raw.symbol
                  /\ AbsValue(index, p)
                        < AbsValue(index, PositionOf(accounts[calls[c][1].acct],
                                                     calls[c][2].raw.symbol))

\* a refresh that finds the deficiency with forced liquidation disabled
C30_WitnessDisabled ==
    \E c \in Callers :
        /\ Returned(W, c) /\ calls[c][1].acct \in DOMAIN accounts
        /\ ~config.forceLiquidationEnabled
        /\ hasMaintenanceDeficiency(
              computeMetrics(config, index, accounts[calls[c][1].acct]))
        /\ Len(accounts[calls[c][1].acct].positions) >= 1

\* C31: when the refresh has submitted its internal order while the market
\* is closed, that order is on its way to being REJECTED for the closed
\* market: the placeOrder that handles it is the only internal call, it
\* attempts no liquidation of its own, and it ends with the rejection, from
\* which the refresh records the synthetic REJECTED order with reason
\* margin_call_forced_liquidation_failed and stops.
C31_FailedLiquidationStops ==
    \A c \in Callers :
        (ForcedFrames(c) >= 1 /\ ~isMarketOpen(config, now)) =>
            LET f == Top(W, c)
            IN  /\ ForcedFrames(c) = 1
                /\ f.pc \in {"refresh", "body", "done"}
                /\ f.pc = "done" =>
                      /\ f.exit = "market"
                      /\ f.ret.order.status = ORDER_STATUS.REJECTED

-----------------------------------------------------------------------------
(* The cash movement of a fill *)

\* what #applyTrade does to the cash of an account, for a fill of notional
\* N and fees f
CashMoved(before, after, side, N, f) ==
    LET old == before.pendingSettlements
        new == after.pendingSettlements
        buys == side \in {"BUY", "BUY_TO_COVER"}
    IN  /\ side \in VALID_SIDES
        /\ after.feesDue = before.feesDue + f
        /\ after.settledCash = before.settledCash
        /\ Len(new) = Len(old) + 1
        /\ SubSeq(new, 1, Len(old)) = old
        /\ new[Len(new)].amount = N
        /\ new[Len(new)].direction = IF buys THEN "DEBIT" ELSE "CREDIT"
        /\ after.reservedCash = before.reservedCash + (IF buys THEN N ELSE 0)
        /\ after.unsettledCash = before.unsettledCash + (IF buys THEN 0 ELSE N)

\* the step records a fill on account a
RecordsFill(a) == Len(accounts'[a].fills) = Len(accounts[a].fills) + 1

\* the account as #applyTrade leaves it in the step that records a fill
Traded(a) ==
    LET fill == Head(accounts'[a].fills)
    IN  applyTrade(config, now, accounts[a], Head(accounts'[a].orders),
                   fill.price, fill.notional, fill.fees)

\* C32: applying a buy-side fill (BUY, BUY_TO_COVER) of notional N and fees
\* f adds N to reservedCash, appends exactly one pending DEBIT entry of
\* amount N, adds f to feesDue and leaves settledCash and unsettledCash as
\* they were; a sell-side fill (SELL, SELL_SHORT) adds N to unsettledCash,
\* appends one CREDIT entry of amount N, adds f to feesDue and leaves
\* settledCash and reservedCash as they were.  The account after the step
\* that records the fill is this account with the closing refresh applied.
C32_FillCashMovement ==
    [][ \A a \in DOMAIN accounts :
            RecordsFill(a) =>
                LET fill == Head(accounts'[a].fills)
                    closed == refreshLedger(
                                [W EXCEPT !.accounts[a] =
                                    [Traded(a) EXCEPT !.orders = accounts'[a].orders,
                                                       !.fills = accounts'[a].fills]],
                                a).accounts[a]
                IN  /\ CashMoved(accounts[a], Traded(a), fill.side,
                                 fill.notional, fill.fees)
                    /\ accounts'[a] = closed ]_vars

\* a purchase just recorded: the notional is reserved, one DEBIT entry is
\* pending, and the fees have left settledCash with the closing refresh
C32_Witness ==
    \E a \in DOMAIN accounts :
        LET account == accounts[a]
        IN  /\ BoughtOnce(account) /\ account.fills[1].timestamp = now
            /\ account.fills[1].fees > 0
            /\ account.reservedCash = account.fills[1].notional
            /\ account.unsettledCash = 0
            /\ account.pendingSettlements = <<EntryOf(account.fills[1])>>
            /\ account.settledCash = OpeningCapital - account.fills[1].fees

\* a sale after a purchase: a CREDIT entry behind the DEBIT entry
C32_WitnessSell ==
    \E a \in DOMAIN accounts :
        LET account == accounts[a]
        IN  /\ Len(account.fills) = 2
            /\ account.fills[1].side = "SELL" /\ account.fills[2].side = "BUY"
            /\ account.pendingSettlements
                  = <<EntryOf(account.fills[2]), EntryOf(account.fills[1])>>
            /\ account.unsettledCash = account.fills[1].notional
            /\ account.reservedCash = account.fills[2].notional

-----------------------------------------------------------------------------
(* Settlement of the pending entries *)

\* the step runs #settleDueEntries on account a: an operation is invoked on
\* it (by a client or by a refresh), a fill is recorded and placeOrder goes
\* to its closing refresh, or the recursion of refreshes goes on
Refreshes(a) ==
    \E c \in Callers :
        /\ calls'[c] # calls[c] /\ calls'[c] # <<>>
        /\ Top(W', c).acct = a
        /\ \/ Len(calls'[c]) > Len(calls[c])
           \/ RecordsFill(a)
           \/ Top(W', c).pc = "overflow"

IsDue(entry) == entry.settleAt <= now

AmountOf(entries, direction) ==
    SumSeq([i \in 1..Len(entries) |->
              IF entries[i].direction = direction THEN entries[i].amount ELSE 0])

\* the pending entries after the step, without the one a fill of the step
\* has appended
Remaining(a) ==
    IF RecordsFill(a)
    THEN SubSeq(accounts'[a].pendingSettlements, 1,
                Len(accounts'[a].pendingSettlements) - 1)
    ELSE accounts'[a].pendingSettlements

\* what the fill of the step, if any, adds to a bucket
Filling(a, sides, field) ==
    IF RecordsFill(a) /\ Head(accounts'[a].fills).side \in sides
    THEN Head(accounts'[a].fills)[field]
    ELSE 0

\* C33: each pending settlement entry is applied exactly once.  A step that
\* refreshes the account removes exactly the entries with settleAt <= now,
\* and moves their amounts once: DEBIT amounts out of reservedCash and
\* settledCash, CREDIT amounts out of unsettledCash into settledCash; the
\* entries not yet due stay, with their amounts and in their order; a step
\* that does not refresh the account settles nothing.  So an entry is never
\* settled before its settleAt, never twice, and no due entry outlives a
\* refresh.
C33_SettledExactlyOnce ==
    [][ \A a \in DOMAIN accounts :
            LET old == accounts[a].pendingSettlements
                due == SelectSeq(old, IsDue)
                debits == AmountOf(due, "DEBIT")
                credits == AmountOf(due, "CREDIT")
                buys == {"BUY", "BUY_TO_COVER"}
                sells == {"SELL", "SELL_SHORT"}
            IN  IF Refreshes(a)
                THEN /\ Remaining(a) = SelectSeq(old, LAMBDA e : ~IsDue(e))
                     /\ accounts'[a].reservedCash
                           = accounts[a].reservedCash - debits
                               + Filling(a, buys, "notional")
                     /\ accounts'[a].unsettledCash
                           = accounts[a].unsettledCash - credits
                               + Filling(a, sells, "notional")
                     /\ accounts'[a].settledCash
                           = accounts[a].settledCash + credits - debits
                               - accounts[a].feesDue
                               - Filling(a, buys \cup sells, "fees")
                ELSE /\ accounts'[a].pendingSettlements = old
                     /\ accounts'[a].reservedCash = accounts[a].reservedCash
                     /\ accounts'[a].unsettledCash = accounts[a].unsettledCash
                     /\ accounts'[a].settledCash = accounts[a].settledCash ]_vars

\* the entry of an earlier day has been settled and the entry of today's
\* fill is pending
C33_Witness ==
    \E a \in DOMAIN accounts :
        LET account == accounts[a]
        IN  /\ Len(account.fills) = 2
            /\ SettlementDue(account.fills[2])
            /\ ~SettlementDue(account.fills[1])
            /\ account.pendingSettlements = <<EntryOf(account.fills[1])>>

\* a DEBIT and a CREDIT entry settled by the same refresh
C33_WitnessBoth ==
    \E a \in DOMAIN accounts :
        LET account == accounts[a]
        IN  /\ Len(account.fills) = 2
            /\ account.fills[1].timestamp = account.fills[2].timestamp
            /\ sideIsBuy(account.fills[1].side) # sideIsBuy(account.fills[2].side)
            /\ SettlementDue(account.fills[1])
            /\ account.pendingSettlements = <<>>
            /\ account.reservedCash = 0 /\ account.unsettledCash = 0

\* a refresh that leaves an entry pending: a read on the day of the fill
C33_WitnessNotDue ==
    \E c \in ViewHolders :
        LET account == accounts[calls[c][1].acct]
        IN  /\ Len(account.fills) = 1 /\ ~SettlementDue(account.fills[1])
            /\ account.pendingSettlements = <<EntryOf(account.fills[1])>>

-----------------------------------------------------------------------------
(* Orders that are not filled *)

\* client c's placeOrder takes a step after the refresh it opened with
\* (normalisation to simulation, lines 234-304) that does not record a fill
StepsUnfilled(c) ==
    /\ calls[c] # <<>> /\ calls'[c] # <<>> /\ calls'[c] # calls[c]
    /\ Len(calls'[c]) = Len(calls[c])
    /\ Top(W, c).op = "placeOrder"
    /\ Top(W, c).pc \in {"body", "guard", "sleep", "fill", "simulated"}
    /\ Top(W', c).exit # "filled"

Unfilled == {ORDER_STATUS.REJECTED, ORDER_STATUS.OPEN}

\* C35: a placeOrder that returns a REJECTED or OPEN order leaves the ledger
\* of the account as the refresh it opened with left it: no step it takes
\* after that refresh changes the positions, settledCash, unsettledCash,
\* reservedCash, feesDue, the pending settlements, the fills or the orders
\* already in the history, and the step that ends it prepends the order it
\* returns; a call that returns such an order has recorded no fill.
C35_UnfilledOrderLeavesLedger ==
    [][ \A c \in Callers :
            StepsUnfilled(c) =>
                LET a == Top(W, c).acct
                    f == Top(W', c)
                    ends == f.pc = "done" /\ f.ret.kind = "order"
                IN  /\ [accounts'[a] EXCEPT !.orders = <<>>]
                          = [accounts[a] EXCEPT !.orders = <<>>]
                    /\ accounts'[a].orders
                          = IF ends THEN <<f.ret.order>> \o accounts[a].orders
                            ELSE accounts[a].orders
                    /\ ends => /\ f.ret.order.status \in Unfilled
                               /\ \A i \in 1..Len(accounts[a].fills) :
                                     accounts[a].fills[i].orderId # f.ret.order.id ]_vars

\* an order REJECTED by the post-trade simulation, on an account that holds
\* a position and a pending settlement which the simulation had on its copy
C35_Witness ==
    \E c \in Callers :
        /\ Returned(W, c) /\ calls[c][1].exit = "simulation"
        /\ calls[c][1].ret.order.status = ORDER_STATUS.REJECTED
        /\ LET account == accounts[calls[c][1].acct]
           IN  /\ Len(account.fills) = 1 /\ Len(account.positions) = 1
               /\ account.pendingSettlements = <<EntryOf(account.fills[1])>>
               /\ account.reservedCash = account.fills[1].notional
               /\ Head(account.orders) = calls[c][1].ret.order

\* an order returned OPEN
C35_WitnessOpen ==
    \E c \in Callers :
        /\ Returned(W, c) /\ calls[c][1].ret.kind = "order"
        /\ calls[c][1].ret.order.status = ORDER_STATUS.OPEN
        /\ LET account == accounts[calls[c][1].acct]
           IN  /\ Len(account.fills) = 1
               /\ Head(account.orders) = calls[c][1].ret.order

-----------------------------------------------------------------------------
(* The cash held for pending settlements *)

\* C36: in every reachable state the reservedCash of an account is the sum
\* of the amounts of its pending DEBIT entries and its unsettledCash the sum
\* of the amounts of its pending CREDIT entries; so both are >= 0, both are
\* 0 when no settlement is pending, and reservedCash is at least the amount
\* of the DEBIT entries that are due, so that the max(0, ...) applied when
\* one settles changes nothing.
C36_PendingCashConsistent ==
    \A a \in DOMAIN accounts :
        LET account == accounts[a]
            pending == account.pendingSettlements
        IN  /\ account.reservedCash = AmountOf(pending, "DEBIT")
            /\ account.unsettledCash = AmountOf(pending, "CREDIT")
            /\ account.reservedCash >= 0 /\ account.unsettledCash >= 0
            /\ pending = <<>> =>
                  account.reservedCash = 0 /\ account.unsettledCash = 0
            /\ account.reservedCash
                  - AmountOf(SelectSeq(pending, IsDue), "DEBIT") >= 0

\* a purchase and a sale pending together
C36_Witness ==
    \E a \in DOMAIN accounts :
        /\ Len(accounts[a].pendingSettlements) = 2
        /\ accounts[a].reservedCash > 0 /\ accounts[a].unsettledCash > 0

\* both settled: nothing is held
C36_WitnessSettled ==
    \E a \in DOMAIN accounts :
        /\ Len(accounts[a].fills) = 2
        /\ accounts[a].pendingSettlements = <<>>
        /\ accounts[a].reservedCash = 0 /\ accounts[a].unsettledCash = 0
        /\ accounts[a].settledCash # OpeningCapital

\* an entry that is due and not yet settled: the clock has passed its
\* settleAt and no operation has refreshed the account since
C36_WitnessDue ==
    \E a \in DOMAIN accounts :
        /\ accounts[a].reservedCash > 0
        /\ \E i \in 1..Len(accounts[a].pendingSettlements) :
              IsDue(accounts[a].pendingSettlements[i])

-----------------------------------------------------------------------------
(* Conservation of cash *)

\* settledCash + unsettledCash - reservedCash - feesDue
NetCash(account) ==
    account.settledCash + account.unsettledCash
        - account.reservedCash - account.feesDue

\* what the fills of the account have brought in: the notionals of the
\* sell-side fills, less those of the buy-side fills, less the fees of all
FillsCash(account) ==
    SumSeq([i \in 1..Len(account.fills) |->
              (IF sideIsBuy(account.fills[i].side)
               THEN -account.fills[i].notional ELSE account.fills[i].notional)
                  - account.fills[i].fees])

\* the borrow fee the step accrues on account a: the one a resumed
\* #applyBorrowFeesIfNeeded computes from the days and the quotes it has read
AccruedInStep(a) ==
    SumSeq([c \in Callers |->
              IF /\ calls[c] # <<>> /\ calls'[c] # calls[c]
                 /\ Top(W, c).acct = a
                 /\ Top(W, c).pc = "refresh" /\ Top(W, c).loc # Null
                 /\ Len(Top(W, c).loc.shorts) = 1
              THEN LET l == Top(W, c).loc
                   IN  Max(0, roundMoney(
                              (l.shortValue + Abs(l.shorts[1].quantity) * l.mid)
                                  * config.shortBorrowDailyRate[1] * l.days,
                              config.shortBorrowDailyRate[2]))
              ELSE 0])

\* C37: cash is conserved.  An account starts with settledCash =
\* initialCapital and nothing else, and every step changes settledCash +
\* unsettledCash - reservedCash - feesDue by exactly the notionals and fees
\* of the fills it records (+ notional of a sell-side fill, - notional of a
\* buy-side fill, - fees) less the borrow fee it accrues; so in every
\* reachable state the total is initialCapital + sell notionals - buy
\* notionals - fees of the fills - accrued borrow fees.  Settlement and the
\* fee drain move money between the buckets without changing the total.
C37_CashConserved ==
    [][ \A a \in DOMAIN accounts' :
            IF a \notin DOMAIN accounts
            THEN /\ accounts'[a].settledCash \in budget.capitals
                 /\ NetCash(accounts'[a]) = accounts'[a].settledCash
                 /\ accounts'[a].fills = <<>>
            ELSE NetCash(accounts'[a]) - FillsCash(accounts'[a])
                    = NetCash(accounts[a]) - FillsCash(accounts[a])
                          - AccruedInStep(a) ]_vars

\* a short sale settled and a borrow fee accrued and not yet drained: the
\* total is the capital and the proceeds less the fees of the fill and the
\* borrow fee
C37_Witness ==
    \E a \in DOMAIN accounts :
        LET account == accounts[a]
        IN  /\ Len(account.fills) = 1 /\ account.fills[1].side = "SELL_SHORT"
            /\ account.pendingSettlements = <<>>
            /\ account.feesDue > 0
            /\ NetCash(account)
                  = OpeningCapital + FillsCash(account) - account.feesDue

\* a purchase and a sale, both settled, the fees drained
C37_WitnessTraded ==
    \E a \in DOMAIN accounts :
        LET account == accounts[a]
        IN  /\ Len(account.fills) = 2
            /\ account.fills[1].side = "SELL" /\ account.fills[2].side = "BUY"
            /\ account.pendingSettlements = <<>> /\ account.feesDue = 0
            /\ account.settledCash = OpeningCapital + FillsCash(account)

-----------------------------------------------------------------------------
(* Settlement and equity *)

\* the account with its i-th pending entry settled, as the loop of
\* #settleDueEntries settles it
SettledAt(account, i) ==
    SettleEntries(
        [account EXCEPT !.pendingSettlements =
            SubSeq(@, 1, i - 1) \o SubSeq(@, i + 1, Len(@))],
        <<account.pendingSettlements[i]>>)

\* C38: settlement does not change equity: an account with a pending entry
\* that is due, DEBIT or CREDIT, has the same equity and the same margin
\* excess, computed at the same mid prices, immediately before and
\* immediately after that entry is settled.
C38_SettlementKeepsEquity ==
    \A a \in DOMAIN accounts :
        \A i \in 1..Len(accounts[a].pendingSettlements) :
            IsDue(accounts[a].pendingSettlements[i]) =>
                LET before == computeMetrics(config, index, accounts[a])
                    after == computeMetrics(config, index, SettledAt(accounts[a], i))
                IN  /\ after.equity = before.equity
                    /\ after.marginExcess = before.marginExcess

-----------------------------------------------------------------------------
(* The limit price *)

\* C39: the limit price is honoured by the fill: every FILLED order whose
\* effective type is LIMIT (a LIMIT, or a triggered STOP_LIMIT) has
\* fillPrice <= limitPrice when it is buy-side and fillPrice >= limitPrice
\* when it is sell-side.
C39_LimitHonoured ==
    \A a \in DOMAIN accounts :
        \A i \in 1..Len(accounts[a].orders) :
            LET order == accounts[a].orders[i]
            IN  (order.status = ORDER_STATUS.FILLED /\ order.effectiveType = "LIMIT") =>
                    IF sideIsBuy(order.side)
                    THEN order.fillPrice[1] <= order.limitPrice[1]
                    ELSE order.fillPrice[1] >= order.limitPrice[1]

-----------------------------------------------------------------------------
(* Short-borrow fees *)

HoldsShort(account) ==
    \E i \in 1..Len(account.positions) : account.positions[i].quantity < 0

\* the fee of the days since lastBorrowFeeDate at the quotes of the moment:
\* (sum over the shorts of |quantity| * peek mid) * shortBorrowDailyRate *
\* days, in millionths
BorrowFeeNow(account) ==
    LET ps == account.positions
        shortValue ==
            SumSeq([i \in 1..Len(ps) |->
                      IF ps[i].quantity >= 0 THEN 0
                      ELSE Abs(ps[i].quantity) * peekQuote(index, ps[i].symbol).mid])
    IN  roundMoney(shortValue * config.shortBorrowDailyRate[1]
                       * (toIsoDate(now) - account.lastBorrowFeeDate),
                   config.shortBorrowDailyRate[2])

\* the refresh the call of client c opened with is over
Refreshed(c) ==
    /\ calls[c] # <<>>
    /\ calls[c][1].acct \in DOMAIN accounts
    /\ ~(Depth(W, c) = 1 /\ Top(W, c).pc = "refresh" /\ Top(W, c).after # "return")

\* C34: short-borrow fees accrue at most once per calendar day.  A step
\* adds to feesDue only if lastBorrowFeeDate differs from today and the
\* account holds a short position, and what it adds is (sum over the shorts
\* of |quantity| * peek mid) * shortBorrowDailyRate * (calendar days
\* elapsed), rounded to the millionth; once the refresh an operation opens
\* with is over, lastBorrowFeeDate = today, so a second refresh on the same
\* day adds nothing, and an account without a short accrues nothing.
C34_BorrowFeesOncePerDay ==
    [][ /\ \A a \in DOMAIN accounts :
              accounts'[a].feesDue > accounts[a].feesDue =>
                  /\ accounts[a].lastBorrowFeeDate # toIsoDate(now)
                  /\ HoldsShort(accounts[a])
                  /\ accounts'[a].feesDue
                        = accounts[a].feesDue + BorrowFeeNow(accounts[a])
        /\ \A c \in Callers :
              Refreshed(c) =>
                  accounts[calls[c][1].acct].lastBorrowFeeDate = toIsoDate(now) ]_vars

-----------------------------------------------------------------------------
(* Reads of an account with no maintenance due *)

ReadOps == {"getAccount", "getPositions", "getOrders", "getFills"}

\* nothing is due on the account: no pending entry has reached its
\* settlement time, no fee is owed, the borrow fees are charged up to today
\* and the equity covers the maintenance requirement
NothingDue(w, a) ==
    LET account == w.accounts[a]
    IN  /\ \A i \in 1..Len(account.pendingSettlements) :
              account.pendingSettlements[i].settleAt > w.now
        /\ account.feesDue = 0
        /\ account.lastBorrowFeeDate = toIsoDate(w.now)
        /\ ~hasMaintenanceDeficiency(computeMetrics(w.config, w.index, account))

\* the step is taken by a read of client c on an account of the instance:
\* the read is invoked, runs to its next await or hands its result over
ReadSteps(c) ==
    /\ calls'[c] # calls[c]
    /\ IF calls[c] = <<>>
       THEN Top(W', c).op \in ReadOps /\ Top(W', c).acct \in DOMAIN accounts
       ELSE Top(W, c).op \in ReadOps /\ Top(W, c).acct \in DOMAIN accounts

\* the read of client c began while the borrow fees of a new day were to be
\* charged and goes on from the quote it awaited
ResumesAccrual(c) == calls[c] # <<>> /\ Top(W, c).loc # Null

\* the getAccount of client c returns its view in this step
ReturnsView(c) ==
    /\ calls[c] # <<>> /\ calls'[c] # <<>>
    /\ Top(W, c).op = "getAccount" /\ Top(W, c).pc = "view"
    /\ Top(W', c).pc = "done"

\* the getAccount a client calls next, once the call of c has returned,
\* with nothing scheduled in between
NextGetAccount(w, c, a) ==
    LET idle == [w EXCEPT !.calls[c] = <<>>]
        invoked == Invoke(idle, c, "getAccount", a, "")
        refreshed == StepRefresh(invoked, c)
    IN  StepView(refreshed, c)

\* C40: reads are idempotent when no maintenance is due.  If no pending
\* settlement is due, feesDue = 0, lastBorrowFeeDate = today and the account
\* is not below maintenance, every step of a getAccount, getPositions,
\* getOrders or getFills called in such a state leaves the accounts and
\* every market-data cursor unchanged, and the getAccount that follows a
\* getAccount returns the same view; no step of a read advances a cursor,
\* whatever is due.  (A read called before, while borrow fees were to be
\* charged, is not a read of the claim: it is excluded by ResumesAccrual.)
C40_ReadsIdempotent ==
    [][ \A c \in Callers :
            ReadSteps(c) =>
                LET a == IF calls[c] = <<>> THEN Top(W', c).acct ELSE Top(W, c).acct
                IN  /\ index' = index
                    /\ (NothingDue(W, a) /\ ~ResumesAccrual(c)) =>
                          /\ accounts' = accounts
                          /\ NothingDue(W', a)
                          /\ ~ResumesAccrual(c)'
                          /\ ReturnsView(c) =>
                                LET again == NextGetAccount(W', c, a)
                                IN  /\ Top(again, c).pc = "done"
                                    /\ Top(again, c).ret = Top(W', c).ret
                                    /\ again.accounts = accounts'
                                    /\ again.index = index' ]_vars

\* a getAccount has returned the view of an account that holds a position
\* and an entry not yet due, under a configuration that liquidates
C40_Witness ==
    \E c \in Callers :
        /\ calls[c] # <<>>
        /\ Top(W, c).op = "getAccount" /\ Top(W, c).pc = "done"
        /\ Top(W, c).acct \in DOMAIN accounts
        /\ Top(W, c).ret.kind = "view"
        /\ config.forceLiquidationEnabled
        /\ NothingDue(W, Top(W, c).acct)
        /\ accounts[Top(W, c).acct].positions # <<>>
        /\ accounts[Top(W, c).acct].pendingSettlements # <<>>
        /\ Top(W, c).ret.view = toAccountView(config, index, accounts[Top(W, c).acct])

\* a getPositions has returned the rows of an account with nothing due
C40_WitnessPositions ==
    \E c \in Callers :
        /\ calls[c] # <<>>
        /\ Top(W, c).op = "getPositions" /\ Top(W, c).pc = "done"
        /\ Top(W, c).acct \in DOMAIN accounts
        /\ Top(W, c).ret.kind = "list" /\ Top(W, c).ret.list # <<>>
        /\ NothingDue(W, Top(W, c).acct)

\* a read on an account with something due: its refresh has changed the
\* ledger
C40_WitnessDue ==
    \E c \in Callers :
        /\ calls[c] # <<>>
        /\ Top(W, c).op \in ReadOps /\ Top(W, c).pc = "done"
        /\ Top(W, c).acct \in DOMAIN accounts
        /\ accounts[Top(W, c).acct].fills # <<>>
        /\ accounts[Top(W, c).acct].pendingSettlements = <<>>

-----------------------------------------------------------------------------
(* Cash *)

\* C14: for an account created with initialCapital > 0, settledCash >= 0 in
\* every reachable state, after any sequence of orders, settlements, fee
\* drains, borrow-fee accruals and forced liquidations.
C14_SettledCashNonNegative ==
    \A a \in DOMAIN accounts : accounts[a].settledCash >= 0

-----------------------------------------------------------------------------
(* Serializability of overlapping placeOrder calls *)

\* what a serial execution has to reproduce of an account: its positions,
\* cash buckets, pending settlements and the statuses of its orders
LedgerOf(account) ==
    [ positions |-> account.positions,
      settledCash |-> account.settledCash,
      unsettledCash |-> account.unsettledCash,
      reservedCash |-> account.reservedCash,
      feesDue |-> account.feesDue,
      pendingSettlements |-> account.pendingSettlements,
      statuses |-> [i \in 1..Len(account.orders) |-> account.orders[i].status] ]

\* the calls awaited one after the other, in the order given
RECURSIVE Serial(_, _)
Serial(w, started) ==
    IF started = <<>> THEN w
    ELSE Serial(Await(w, started[1].c, "placeOrder", started[1].acct, started[1].raw),
                Tail(started))

\* the orders in which two overlapping calls can be serialized
SerialOrders == { snapshot.started, <<snapshot.started[2], snapshot.started[1]>> }

\* two placeOrder calls overlapped and both have returned
OverlapEnded ==
    /\ snapshot # Null
    /\ Len(snapshot.started) = 2
    /\ InFlight(W) = 0

BothFilled(w, a) ==
    /\ Len(w.accounts[a].orders) = 2
    /\ \A i \in 1..2 : w.accounts[a].orders[i].status = ORDER_STATUS.FILLED

\* C4: when placeOrder calls on an account overlap, the account ends as some
\* serial execution of the same calls leaves it: same positions, cash
\* buckets, pending settlements and order statuses.
C4_SerialEquivalent ==
    OverlapEnded =>
        \E order \in SerialOrders :
            \A a \in DOMAIN accounts :
                LedgerOf(accounts[a]) = LedgerOf(Serial(snapshot.w, order).accounts[a])

\* C4, its particular case: two overlapping orders are both FILLED only if
\* some serial order of the two calls fills both.
C4_NoDoubleFill ==
    OverlapEnded =>
        \A a \in DOMAIN accounts :
            BothFilled(W, a) =>
                \E order \in SerialOrders : BothFilled(Serial(snapshot.w, order), a)

-----------------------------------------------------------------------------
(* Determinism *)

\* an order and a fill without their timestamps and the clock part of ids
StripOrder(o) ==
    [o EXCEPT !.id.ts = 0, !.createdAt = 0,
              !.filledAt = IF @ = Null THEN Null ELSE Num(0)]

StripFill(x) == [x EXCEPT !.id.ts = 0, !.orderId.ts = 0, !.timestamp = 0]

\* the order and fill histories of an instance, ignoring timestamps
Histories(w) ==
    [a \in DOMAIN w.accounts |->
        [ orders |-> [i \in 1..Len(w.accounts[a].orders) |->
                         StripOrder(w.accounts[a].orders[i])],
          fills |-> [i \in 1..Len(w.accounts[a].fills) |->
                        StripFill(w.accounts[a].fills[i])] ]]

\* the clocks of the two instances agree on the time of day and on the
\* business days in between
ClocksAgree == twin.skew % InstantsPerDay = 0

-----------------------------------------------------------------------------
(* The position rule *)

\* the arguments and the result of the call, as the rule names them
FnQ == IF fn.in.existing = Null THEN 0 ELSE fn.in.existing.quantity
FnA == IF fn.in.existing = Null THEN fn.in.fillPrice ELSE fn.in.existing.avgPrice
FnD == fn.in.deltaQty
FnP == fn.in.fillPrice
FnOut == fn.out[1]

\* |q|, |d| and |q + d| in a unit that divides them, and the cost
\* |q|*a + |d|*p in that unit
FnUnit == GCD(Abs(FnQ), Abs(FnD))
FnSize == Abs(FnQ + FnD) \div FnUnit
FnCost == (Abs(FnQ) \div FnUnit) * FnA + (Abs(FnD) \div FnUnit) * FnP

SameSign == FnQ = 0 \/ Sign(FnQ) = Sign(FnD)
Closes == ~SameSign /\ FnQ + FnD = 0
Reduces == ~SameSign /\ FnQ + FnD # 0 /\ Sign(FnQ + FnD) = Sign(FnQ)
Flips == ~SameSign /\ FnQ + FnD # 0 /\ Sign(FnQ + FnD) # Sign(FnQ)

\* x is q + d rounded to six decimals: a multiple of a millionth no more
\* than half a millionth away
IsRoundedQuantity(x) ==
    /\ x % (QtyScale \div MoneyScale) = 0
    /\ 2 * Abs(x - (FnQ + FnD)) <= QtyScale \div MoneyScale

\* y is the weighted average cost rounded to six decimals
IsRoundedAverage(y) ==
    2 * Abs(y * FnSize - FnCost) <= FnSize

\* C9 as stated: (i) q = 0 or the signs agree: q' = q + d and
\* a' = (|q|*a + |d|*p)/|q'|; (ii) opposite signs and q + d = 0: the position
\* is removed (quantity 0); (iii) opposite signs, the sign of q kept:
\* q' = q + d and a' = a; (iv) the sign flips: q' = q + d and a' = p.
C9_FourCaseRule ==
    fn.out # Null =>
        /\ SameSign => /\ FnOut.quantity = FnQ + FnD
                       /\ FnOut.avgPrice * FnSize = FnCost
        /\ Closes => FnOut.quantity = 0
        /\ Reduces => FnOut.quantity = FnQ + FnD /\ FnOut.avgPrice = FnA
        /\ Flips => FnOut.quantity = FnQ + FnD /\ FnOut.avgPrice = FnP

\* C9 with the rounding the function does: the four cases hold with q' and
\* the weighted average rounded to six decimals; (ii) returns quantity 0.
C9_FourCaseRuleRounded ==
    fn.out # Null =>
        /\ SameSign => /\ IsRoundedQuantity(FnOut.quantity)
                       /\ IsRoundedAverage(FnOut.avgPrice)
        /\ Closes => FnOut.quantity = 0
        /\ Reduces => IsRoundedQuantity(FnOut.quantity) /\ FnOut.avgPrice = FnA
        /\ Flips => IsRoundedQuantity(FnOut.quantity) /\ FnOut.avgPrice = FnP

\* a same-sign addition whose weighted average has more than six decimals
C9_Witness ==
    /\ fn.out # Null
    /\ SameSign /\ FnQ # 0
    /\ FnOut.avgPrice * FnSize # FnCost
    /\ IsRoundedAverage(FnOut.avgPrice)

\* a trade that flips the sign of the position
C9_WitnessFlip == fn.out # Null /\ Flips /\ FnOut.avgPrice = FnP /\ FnP # FnA

-----------------------------------------------------------------------------
(* Termination *)

\* C5: every placeOrder, getAccount, getPositions, getOrders and getFills
\* call eventually completes, returning its result or failing with the
\* unknown-account error, whether forced liquidation is enabled or not.
C5_EveryCallCompletes ==
    \A c \in Callers : (calls[c] # <<>>) ~> Returned(W, c)

====
